---- MODULE Spec2Model ----
(***************************************************************************)
(* The news screen of the application (src/app/(tabs)/news.tsx): the       *)
(* recovery parser extractAndParseJSON, the normalization                  *)
(* processAIResponse and the effect of NewsScreen that runs them; and the  *)
(* home screen (src/app/(tabs)/index.tsx): handleSubmit, fetchRealNews,    *)
(* fetchFallbackNews and groqResponse.                                     *)
(*                                                                         *)
(* Text is a TLA+ string, one character of the model for one character of  *)
(* the program.  The characters the model can write are the printable      *)
(* ASCII ones and the controls \t \n \r \f; a TLA+ string cannot hold the   *)
(* grave accent of a Markdown fence, which the model writes as Backtick.   *)
(***************************************************************************)
EXTENDS Integers, Sequences, FiniteSets, TLC

VARIABLES aiResponse, person, realNewsData, ret, articles, selectedPerson,
          realNewsState, processingComplete, effectPending, log, paramChanges,
          homePersonName, groqApiKey, rapidApiKey, isLoading, error, usingMockData,
          pc, caller, attempt, requests, responses, fetched, promptNews, pushed,
          alerts, result, submissions, waits, linkLog, articleParams

(* The variables of the news screen and those of the home screen           *)
(* (homePersonName is its personName).                                     *)
newsVars == <<aiResponse, person, realNewsData, ret, articles, selectedPerson,
              realNewsState, processingComplete, effectPending, log, paramChanges>>

homeVars == <<homePersonName, groqApiKey, rapidApiKey, isLoading, error, usingMockData,
              pc, caller, attempt, requests, responses, fetched, promptNews, pushed,
              alerts, result, submissions, waits>>

(* The presses of the source links and the params of the article route.   *)
linkVars == <<linkLog, articleParams>>

vars == <<newsVars, homeVars, linkVars>>

----------------------------------------------------------------------------
(* JavaScript values.  Every value has the same five fields, so that any   *)
(* two values can be compared: t is the type, s the text of a string, n    *)
(* the number (1 and 0 for true and false), k the keys of an object in     *)
(* insertion order and e the elements of an array or, for an object, the   *)
(* values of its keys.                                                     *)

Undef == [t |-> "undefined", s |-> "", n |-> 0, k |-> <<>>, e |-> <<>>]

Null == [t |-> "null", s |-> "", n |-> 0, k |-> <<>>, e |-> <<>>]

Bool(b) == [t |-> "bool", s |-> "", n |-> IF b THEN 1 ELSE 0, k |-> <<>>, e |-> <<>>]

Num(n) == [t |-> "num", s |-> "", n |-> n, k |-> <<>>, e |-> <<>>]

Str(s) == [t |-> "str", s |-> s, n |-> 0, k |-> <<>>, e |-> <<>>]

Arr(e) == [t |-> "arr", s |-> "", n |-> 0, k |-> <<>>, e |-> e]

Obj(k, e) == [t |-> "obj", s |-> "", n |-> 0, k |-> k, e |-> e]

(* ToBoolean: what `!v`, `a || b` and `if (v)` test.                       *)
Truthy(v) ==
  CASE v.t = "undefined" -> FALSE
    [] v.t = "null" -> FALSE
    [] v.t = "bool" -> v.n = 1
    [] v.t = "num" -> v.n # 0
    [] v.t = "str" -> v.s # ""
    [] OTHER -> TRUE

(* a || b                                                                  *)
Or(a, b) == IF Truthy(a) THEN a ELSE b

(* v[key] for a string key.  Reading a property of null or undefined       *)
(* throws a TypeError: the caller tests CanRead first.                     *)
CanRead(v) == v.t \notin {"undefined", "null"}

Get(v, key) ==
  IF v.t = "obj" /\ \E i \in 1..Len(v.k) : v.k[i] = key
  THEN v.e[CHOOSE i \in 1..Len(v.k) : v.k[i] = key]
  ELSE Undef

----------------------------------------------------------------------------------------------------------------------------------------
(* Strings.  A scan of a text is written with quantifiers over its         *)
(* positions, or by halving, so that evaluating it nests no deeper on a    *)
(* long text than on a short one.                                          *)

(* The character at position i (from 1), "" outside the text.              *)
Ch(s, i) == IF 1 <= i /\ i <= Len(s) THEN SubSeq(s, i, i) ELSE ""

Min(a, b) == IF a < b THEN a ELSE b

StartsWithAt(s, i, p) == i >= 1 /\ i + Len(p) - 1 <= Len(s) /\ SubSeq(s, i, i + Len(p) - 1) = p

(* The pieces f[lo], ..., f[hi] joined in order.                           *)
RECURSIVE Concat(_, _, _)
Concat(f, lo, hi) ==
  IF lo > hi THEN ""
  ELSE IF lo = hi THEN f[lo]
  ELSE LET mid == (lo + hi) \div 2
       IN Concat(f, lo, mid) \o Concat(f, mid + 1, hi)

(* The first position at or after `from` where p occurs in s; 0 if none.   *)
FirstMatch(s, p, from) ==
  IF \E i \in from..Len(s) : StartsWithAt(s, i, p)
  THEN CHOOSE i \in from..Len(s) :
         StartsWithAt(s, i, p) /\ \A j \in from..(i - 1) : ~StartsWithAt(s, j, p)
  ELSE 0

(* The last position where p occurs in s; 0 if none.  d counts back from   *)
(* the end.                                                                *)
LastMatch(s, p) ==
  IF \E d \in 0..(Len(s) - 1) : StartsWithAt(s, Len(s) - d, p)
  THEN Len(s) - (CHOOSE d \in 0..(Len(s) - 1) :
                   StartsWithAt(s, Len(s) - d, p)
                     /\ \A m \in 0..(d - 1) : ~StartsWithAt(s, Len(s) - m, p))
  ELSE 0

(* String.prototype.indexOf and lastIndexOf: 0-based, -1 when absent.      *)
IndexOf(s, p) == FirstMatch(s, p, 1) - 1

LastIndexOf(s, p) == LastMatch(s, p) - 1

(* String.prototype.substring(a, b) for 0 <= a: the characters a..b-1,     *)
(* b clamped to the length.                                                *)
Substring(s, a, b) == SubSeq(s, a + 1, Min(b, Len(s)))

(* String.prototype.split(sep)[0]: the text before the first sep.          *)
SplitFirst(s, sep) ==
  LET m == FirstMatch(s, sep, 1) IN IF m = 0 THEN s ELSE SubSeq(s, 1, m - 1)

(* String.prototype.startsWith                                             *)
StartsWith(s, p) == StartsWithAt(s, 1, p)

(* The characters \s of a regular expression and those trim() removes.     *)
WhiteSpace == {" ", "\t", "\n", "\r", "\f"}

(* The characters of [\u0000-\u001F\u007F-\u009F].                         *)
ControlChars == {"\t", "\n", "\r", "\f"}

(* The first position at or after i that holds no character of `set`       *)
(* (Len(s) + 1 if none), and the last one at or before i (0 if none).      *)
NextOutside(s, set, i) ==
  IF \E j \in i..Len(s) : Ch(s, j) \notin set
  THEN CHOOSE j \in i..Len(s) : Ch(s, j) \notin set /\ \A m \in i..(j - 1) : Ch(s, m) \in set
  ELSE Len(s) + 1

PrevOutside(s, set, i) ==
  IF \E d \in 0..(i - 1) : Ch(s, i - d) \notin set
  THEN i - (CHOOSE d \in 0..(i - 1) :
              Ch(s, i - d) \notin set /\ \A m \in 0..(d - 1) : Ch(s, i - m) \in set)
  ELSE 0

(* String.prototype.trim                                                   *)
Trim(s) == SubSeq(s, NextOutside(s, WhiteSpace, 1), PrevOutside(s, WhiteSpace, Len(s)))

(* s.replace(/<fence>\n?/g, ''): every occurrence of the fence, left to    *)
(* right and not overlapping, with the newline that follows it if there    *)
(* is one.  i is where the search resumes.                                 *)
RECURSIVE StripFenceFrom(_, _, _)
StripFenceFrom(s, fence, i) ==
  LET Cut(m) ==
        LET j == m + Len(fence)
        IN IF m = 0 THEN SubSeq(s, i, Len(s))
           ELSE SubSeq(s, i, m - 1)
                \o StripFenceFrom(s, fence, IF Ch(s, j) = "\n" THEN j + 1 ELSE j)
  IN Cut(FirstMatch(s, fence, i))

(* The grave accent, U+0060.  No other text of the model uses "^".         *)
Backtick == "^"

Fence == Backtick \o Backtick \o Backtick

(* cleanText.replace(/```json\n?/g, '').replace(/```\n?/g, '')             *)
StripFences(s) == StripFenceFrom(StripFenceFrom(s, Fence \o "json", 1), Fence, 1)

(* s.replace(/[\u0000-\u001F\u007F-\u009F]/g, '')                          *)
StripControl(s) ==
  Concat([i \in 1..Len(s) |-> IF Ch(s, i) \in ControlChars THEN "" ELSE Ch(s, i)], 1, Len(s))

(* s.replace(/,\s*<closer>/g, closer).  A match is a comma, the white      *)
(* space after it and the closer; no two matches share a character, so a   *)
(* character is dropped exactly when it is the comma or the white space    *)
(* of a match.                                                             *)
InTrailingComma(s, closer, i) ==
  LET c == PrevOutside(s, WhiteSpace, i)
      n == NextOutside(s, WhiteSpace, i + 1)
  IN /\ c >= 1 /\ Ch(s, c) = ","
     /\ n <= Len(s) /\ Ch(s, n) = closer

StripTrailingComma(s, closer) ==
  Concat([i \in 1..Len(s) |-> IF InTrailingComma(s, closer, i) THEN "" ELSE Ch(s, i)], 1, Len(s))

(* s.replace(/\n/g, ' ')                                                   *)
ReplaceNewlines(s) ==
  Concat([i \in 1..Len(s) |-> IF Ch(s, i) = "\n" THEN " " ELSE Ch(s, i)], 1, Len(s))

(* s.replace(/\s+/g, ' '): one space for the first character of a run of   *)
(* white space, nothing for the others.                                    *)
NormalizeWhitespace(s) ==
  Concat([i \in 1..Len(s) |->
            IF Ch(s, i) \notin WhiteSpace THEN Ch(s, i)
            ELSE IF i > 1 /\ Ch(s, i - 1) \in WhiteSpace THEN "" ELSE " "], 1, Len(s))

(* A cleanup that forgets the commas before a closing bracket.             *)
RepairBracesOnly(jsonString) ==
  NormalizeWhitespace(ReplaceNewlines(StripTrailingComma(jsonString, "}")))

(* The "additional cleanup" of the sliced text.                            *)
Repair(jsonString) ==
  NormalizeWhitespace(
    ReplaceNewlines(StripTrailingComma(StripTrailingComma(jsonString, "}"), "]")))

----------------------------------------------------------------------------
(* JSON.parse, by the grammar of ECMA-404.  The result is [ok, v]: ok is   *)
(* FALSE where JSON.parse throws a SyntaxError.  Numbers are the integers; *)
(* no text of the model writes a fraction, an exponent, or the escapes \b  *)
(* and \uXXXX, which this parser takes for errors.                         *)

JsonWhiteSpace == {" ", "\t", "\n", "\r"}

DigitChars == {"0", "1", "2", "3", "4", "5", "6", "7", "8", "9"}

DigitValue(c) == FirstMatch("0123456789", c, 1) - 1

RECURSIVE DecimalValue(_)
DecimalValue(d) ==
  IF d = "" THEN 0
  ELSE 10 * DecimalValue(SubSeq(d, 1, Len(d) - 1)) + DigitValue(Ch(d, Len(d)))

ParseFail == [ok |-> FALSE, v |-> Undef, i |-> 0]

ParseOk(v, i) == [ok |-> TRUE, v |-> v, i |-> i]

(* The number of backslashes that stand immediately before position j.     *)
BackslashesBefore(s, j) == (j - 1) - PrevOutside(s, {"\\"}, j - 1)

(* A backslash that starts an escape: an even number of backslashes        *)
(* stands before it.                                                       *)
IsEscapeStart(s, p) == Ch(s, p) = "\\" /\ BackslashesBefore(s, p) % 2 = 0

Unescape(c) ==
  CASE c = "n" -> "\n"
    [] c = "t" -> "\t"
    [] c = "r" -> "\r"
    [] c = "f" -> "\f"
    [] OTHER -> c

(* The position of the quote that closes the string literal opened at i:   *)
(* the first quote after i that no backslash escapes; 0 if there is none.  *)
ClosingQuote(s, i) ==
  LET closes(j) == Ch(s, j) = "\"" /\ BackslashesBefore(s, j) % 2 = 0
  IN IF \E j \in (i + 1)..Len(s) : closes(j)
     THEN CHOOSE j \in (i + 1)..Len(s) : closes(j) /\ \A m \in (i + 1)..(j - 1) : ~closes(m)
     ELSE 0

(* The string literal whose opening quote is at i.                         *)
ParseString(s, i) ==
  LET Read(q) ==
        IF q = 0 THEN ParseFail
        ELSE IF \A p \in (i + 1)..(q - 1) :
                  /\ Ch(s, p) \notin ControlChars
                  /\ IsEscapeStart(s, p) =>
                       Ch(s, p + 1) \in {"\"", "\\", "/", "n", "t", "r", "f"}
        THEN ParseOk(Str(Concat([p \in (i + 1)..(q - 1) |->
                                   IF IsEscapeStart(s, p) THEN Unescape(Ch(s, p + 1))
                                   ELSE IF IsEscapeStart(s, p - 1) THEN ""
                                   ELSE Ch(s, p)], i + 1, q - 1)), q + 1)
        ELSE ParseFail
  IN Read(ClosingQuote(s, i))

(* The number that starts at i.                                            *)
ParseNumber(s, i) ==
  LET neg == Ch(s, i) = "-"
      Digits(d, e) ==
        IF e = d \/ Ch(s, e) \in DigitChars \cup {".", "e", "E"} THEN ParseFail
        ELSE ParseOk(Num((IF neg THEN -1 ELSE 1) * DecimalValue(SubSeq(s, d, e - 1))), e)
      From(d) == Digits(d, IF Ch(s, d) = "0" THEN d + 1 ELSE NextOutside(s, DigitChars, d))
  IN From(IF neg THEN i + 1 ELSE i)

(* obj[key] = v while an object literal is read: a repeated key keeps its  *)
(* place and takes the later value.                                        *)
PutKey(o, key, v) ==
  IF \E n \in 1..Len(o.k) : o.k[n] = key
  THEN Obj(o.k, [n \in 1..Len(o.k) |-> IF o.k[n] = key THEN v ELSE o.e[n]])
  ELSE Obj(Append(o.k, key), Append(o.e, v))

RECURSIVE ParseValue(_, _)
RECURSIVE ParseElements(_, _, _)
RECURSIVE ParseMembers(_, _, _)

(* The value that starts at or after i, white space skipped.               *)
ParseValue(s, i) ==
  LET At(j, c, n) ==
        CASE c = "[" ->
               IF Ch(s, n) = "]" THEN ParseOk(Arr(<<>>), n + 1)
               ELSE ParseElements(s, j + 1, <<>>)
          [] c = "{" ->
               IF Ch(s, n) = "}" THEN ParseOk(Obj(<<>>, <<>>), n + 1)
               ELSE ParseMembers(s, j + 1, Obj(<<>>, <<>>))
          [] c = "\"" -> ParseString(s, j)
          [] c \in DigitChars \cup {"-"} -> ParseNumber(s, j)
          [] StartsWithAt(s, j, "true") -> ParseOk(Bool(TRUE), j + 4)
          [] StartsWithAt(s, j, "false") -> ParseOk(Bool(FALSE), j + 5)
          [] StartsWithAt(s, j, "null") -> ParseOk(Null, j + 4)
          [] OTHER -> ParseFail
      Skip(j) == At(j, Ch(s, j), NextOutside(s, JsonWhiteSpace, j + 1))
  IN Skip(NextOutside(s, JsonWhiteSpace, i))

(* The elements of an array from i on, acc the ones already read.          *)
ParseElements(s, i, acc) ==
  LET After(r, j) ==
        IF ~r.ok THEN ParseFail
        ELSE IF Ch(s, j) = "," THEN ParseElements(s, j + 1, Append(acc, r.v))
        ELSE IF Ch(s, j) = "]" THEN ParseOk(Arr(Append(acc, r.v)), j + 1)
        ELSE ParseFail
      Element(r) == After(r, NextOutside(s, JsonWhiteSpace, r.i))
  IN Element(ParseValue(s, i))

(* The members of an object from i on, o the object read so far.           *)
ParseMembers(s, i, o) ==
  LET After(key, r, n) ==
        IF ~r.ok THEN ParseFail
        ELSE IF Ch(s, n) = "," THEN ParseMembers(s, n + 1, PutKey(o, key.v.s, r.v))
        ELSE IF Ch(s, n) = "}" THEN ParseOk(PutKey(o, key.v.s, r.v), n + 1)
        ELSE ParseFail
      Member(key, r) == After(key, r, NextOutside(s, JsonWhiteSpace, r.i))
      Colon(key, c) ==
        Member(key, IF key.ok /\ Ch(s, c) = ":" THEN ParseValue(s, c + 1) ELSE ParseFail)
      Key(key) == Colon(key, NextOutside(s, JsonWhiteSpace, key.i))
      Name(j) == Key(IF Ch(s, j) = "\"" THEN ParseString(s, j) ELSE ParseFail)
  IN Name(NextOutside(s, JsonWhiteSpace, i))

JSONParse(text) ==
  LET Whole(r) ==
        IF r.ok /\ NextOutside(text, JsonWhiteSpace, r.i) = Len(text) + 1
        THEN [ok |-> TRUE, v |-> r.v]
        ELSE [ok |-> FALSE, v |-> Undef]
  IN Whole(ParseValue(text, 1))

----------------------------------------------------------------------------
(* JSON.stringify and String().                                            *)

RECURSIVE NatToString(_)
NatToString(n) ==
  IF n < 10 THEN Ch("0123456789", n + 1)
  ELSE NatToString(n \div 10) \o Ch("0123456789", (n % 10) + 1)

(* String(n) for an integer n.                                             *)
NumberToString(n) == IF n < 0 THEN "-" \o NatToString(0 - n) ELSE NatToString(n)

(* String(v) for the values a text parameter can hold.                     *)
ToJSString(v) == IF v.t = "str" THEN v.s ELSE v.t

(* A string as JSON.stringify quotes it.                                   *)
Quote(s) ==
  LET piece == [i \in 1..Len(s) |->
                  CASE Ch(s, i) = "\"" -> "\\\""
                    [] Ch(s, i) = "\\" -> "\\\\"
                    [] Ch(s, i) = "\n" -> "\\n"
                    [] Ch(s, i) = "\t" -> "\\t"
                    [] Ch(s, i) = "\r" -> "\\r"
                    [] Ch(s, i) = "\f" -> "\\f"
                    [] OTHER -> Ch(s, i)]
  IN "\"" \o Concat(piece, 1, Len(s)) \o "\""

(* The pieces of a sequence of texts joined by commas.                     *)
RECURSIVE JoinComma(_)
JoinComma(parts) ==
  IF parts = <<>> THEN ""
  ELSE IF Len(parts) = 1 THEN parts[1]
  ELSE parts[1] \o "," \o JoinComma(Tail(parts))

(* JSON.stringify(v) of a value other than undefined: an undefined         *)
(* element of an array is written null, an undefined member of an object   *)
(* is left out.                                                            *)
RECURSIVE Stringify(_)
Stringify(v) ==
  CASE v.t = "null" -> "null"
    [] v.t = "undefined" -> "null"
    [] v.t = "bool" -> IF v.n = 1 THEN "true" ELSE "false"
    [] v.t = "num" -> NumberToString(v.n)
    [] v.t = "str" -> Quote(v.s)
    [] v.t = "arr" -> "[" \o JoinComma([i \in 1..Len(v.e) |-> Stringify(v.e[i])]) \o "]"
    [] OTHER ->
         LET kept == SelectSeq([i \in 1..Len(v.k) |-> i], LAMBDA i : v.e[i].t # "undefined")
         IN "{" \o JoinComma([n \in 1..Len(kept) |->
                                Quote(v.k[kept[n]]) \o ":" \o Stringify(v.e[kept[n]])]) \o "}"

----------------------------------------------------------------------------
(* extractAndParseJSON.  A result is [threw, tier, val, errors]: threw is  *)
(* TRUE when the call ends by an exception; tier is the return statement   *)
(* taken (1 the parsed text, 2 the regex matches, 3 the whole text); val   *)
(* is the array returned; errors are the messages given to console.error.  *)

(* A try block that parses the trimmed text as it stands, with no fence    *)
(* removed and no slice taken.                                             *)
ParseTrimmed(aiText) ==
  LET Result(parsed) ==
        IF ~parsed.ok THEN [ok |-> FALSE, val |-> <<>>]
        ELSE [ok |-> TRUE, val |-> IF parsed.v.t = "arr" THEN parsed.v.e ELSE <<parsed.v>>]
  IN IF aiText.t # "str" THEN [ok |-> FALSE, val |-> <<>>]
     ELSE Result(JSONParse(Trim(aiText.s)))

ArrayWhenPresent(firstArrayStart, firstObjectStart) == firstArrayStart # -1

(* The test of line 53: the text is sliced as an array.                    *)
IsArray(firstArrayStart, firstObjectStart) ==
  firstArrayStart # -1 /\ (firstObjectStart = -1 \/ firstArrayStart < firstObjectStart)

(* The try block: [ok, val], ok FALSE when it throws.                      *)
StrictTier(aiText) ==
  IF aiText.t # "str" THEN [ok |-> FALSE, val |-> <<>>]
  ELSE
    LET Result(parsed) ==
          IF ~parsed.ok THEN [ok |-> FALSE, val |-> <<>>]
          ELSE [ok |-> TRUE, val |-> IF parsed.v.t = "arr" THEN parsed.v.e ELSE <<parsed.v>>]
        Slice(cleanText, jsonStart, jsonEnd) ==
          IF jsonStart = -1 \/ jsonEnd = -1 \/ jsonEnd <= jsonStart
          THEN [ok |-> FALSE, val |-> <<>>]
          ELSE Result(JSONParse(Repair(Substring(cleanText, jsonStart, jsonEnd + 1))))
        Choose(cleanText, firstArrayStart, firstObjectStart, lastArrayEnd, lastObjectEnd) ==
          LET isArray == IsArray(firstArrayStart, firstObjectStart)
          IN Slice(cleanText,
                   IF isArray THEN firstArrayStart
                   ELSE IF firstObjectStart # -1 THEN firstObjectStart ELSE -1,
                   IF isArray THEN lastArrayEnd
                   ELSE IF firstObjectStart # -1 THEN lastObjectEnd ELSE -1)
        Find(cleanText) ==
          Choose(cleanText, IndexOf(cleanText, "["), IndexOf(cleanText, "{"),
                 LastIndexOf(cleanText, "]"), LastIndexOf(cleanText, "}"))
    IN Find(StripControl(StripFences(Trim(aiText.s))))

ArticleKey == "\"Generated article\":"

(* /"Generated article":\s*"([^"]+)"/ matches at position i of s: the key, *)
(* white space, a quote, one or more characters that are no quotes, and a  *)
(* quote.  MatchOpen is the position of the opening quote and MatchClose   *)
(* that of the closing one.                                                *)
MatchOpen(s, i) == NextOutside(s, WhiteSpace, i + Len(ArticleKey))

MatchClose(s, i) == FirstMatch(s, "\"", MatchOpen(s, i) + 1)

MatchesAt(s, i) ==
  /\ StartsWithAt(s, i, ArticleKey)
  /\ Ch(s, MatchOpen(s, i)) = "\""
  /\ MatchClose(s, i) > MatchOpen(s, i) + 1

(* s.replace(/<pat>/g, rep) for a pattern of two different characters,     *)
(* whose occurrences cannot overlap.                                       *)
ReplaceAll(s, pat, rep) ==
  Concat([i \in 1..Len(s) |->
            IF StartsWithAt(s, i, pat) THEN rep
            ELSE IF StartsWithAt(s, i - 1, pat) THEN ""
            ELSE Ch(s, i)], 1, Len(s))

(* The loop over articlePattern.exec: the objects pushed for the matches   *)
(* found from position `from` on.                                          *)
RECURSIVE RegexMatches(_, _)
RegexMatches(s, from) ==
  LET Push(open, close) ==
        <<Obj(<<"Generated article">>,
              <<Str(ReplaceAll(ReplaceAll(SubSeq(s, open + 1, close - 1), "\\n", "\n"),
                               "\\\"", "\""))>>)>>
        \o RegexMatches(s, close + 1)
      Exec(i) == IF i = 0 THEN <<>> ELSE Push(MatchOpen(s, i), MatchClose(s, i))
  IN Exec(IF \E i \in from..Len(s) : MatchesAt(s, i)
          THEN CHOOSE i \in from..Len(s) :
                 MatchesAt(s, i) /\ \A j \in from..(i - 1) : ~MatchesAt(s, j)
          ELSE 0)

(* A last resort that keeps the trimmed text instead of the raw one.       *)
TrimmedText(aiText) == <<Obj(<<"Generated article">>, <<Str(Trim(aiText.s))>>)>>

(* The "ultimate fallback" of the catch block.                             *)
WholeText(aiText) == <<Obj(<<"Generated article">>, <<aiText>>)>>

ParseFailedMessage == "JSON extraction/parsing failed:"

(* A catch block that logs and throws again.                               *)
Rethrow(aiText) ==
  [threw |-> TRUE, tier |-> 0, val |-> <<>>, errors |-> <<ParseFailedMessage>>]

(* The catch block.                                                        *)
Salvage(aiText) ==
  LET Return(matches) ==
        IF Len(matches) > 0
        THEN [threw |-> FALSE, tier |-> 2, val |-> matches, errors |-> <<ParseFailedMessage>>]
        ELSE [threw |-> FALSE, tier |-> 3, val |-> WholeText(aiText),
              errors |-> <<ParseFailedMessage>>]
  IN Return(RegexMatches(ToJSString(aiText), 1))

(* A parser that consults the regex before the try block.                 *)
RegexFirst(aiText) ==
  LET Try(salvaged, strict) ==
        IF salvaged.tier = 2 THEN salvaged
        ELSE IF strict.ok
        THEN [threw |-> FALSE, tier |-> 1, val |-> strict.val, errors |-> <<>>]
        ELSE salvaged
  IN Try(Salvage(aiText), StrictTier(aiText))

ExtractAndParseJSON(aiText) ==
  LET Try(strict) ==
        IF strict.ok
        THEN [threw |-> FALSE, tier |-> 1, val |-> strict.val, errors |-> <<>>]
        ELSE Salvage(aiText)
  IN Try(StrictTier(aiText))

----------------------------------------------------------------------------
(* processAIResponse.                                                      *)

TitleSentenceLimit == 80

TitleCut == 60

SummaryLimit == 200

NewsImages ==
  << "https://images.pexels.com/photos/518543/pexels-photo-518543.jpeg?auto=compress&cs=tinysrgb&w=800",
     "https://images.pexels.com/photos/1591056/pexels-photo-1591056.jpeg?auto=compress&cs=tinysrgb&w=800",
     "https://images.pexels.com/photos/1591447/pexels-photo-1591447.jpeg?auto=compress&cs=tinysrgb&w=800",
     "https://images.pexels.com/photos/1591061/pexels-photo-1591061.jpeg?auto=compress&cs=tinysrgb&w=800",
     "https://images.pexels.com/photos/163064/play-stone-network-networked-interactive-163064.jpeg?auto=compress&cs=tinysrgb&w=800" >>

GetRandomNewsImage(index) == NewsImages[(index % Len(NewsImages)) + 1]

(* a[idx] for a 0-based index.                                             *)
Index(a, idx) ==
  IF a.t = "arr" THEN (IF idx < Len(a.e) THEN a.e[idx + 1] ELSE Undef)
  ELSE IF a.t = "str" THEN (IF idx < Len(a.s) THEN Str(Ch(a.s, idx + 1)) ELSE Undef)
  ELSE Get(a, NumberToString(idx))

(* newsData[idx] with no default.                                          *)
NewsAt(newsData, idx) == Index(newsData, idx)

(* The first news item, whatever the index.                                *)
FirstNewsItem(newsData, idx) == Or(Index(newsData, 0), Obj(<<>>, <<>>))

(* newsData[idx] || {}                                                     *)
RealNewsItem(newsData, idx) == Or(Index(newsData, idx), Obj(<<>>, <<>>))

(* A test that takes any source URL for a verified one.                    *)
HasSourceUrl(sourceUrl) == sourceUrl # ""

(* !!(sourceUrl && sourceUrl.startsWith('http')) for a string sourceUrl.   *)
IsVerified(sourceUrl) == sourceUrl # "" /\ StartsWith(sourceUrl, "http")

DefaultTitle(personName) == personName \o "'s Perspective on Current Events"

(* A title that is the first sentence, however long.                       *)
WholeSentenceTitle(generatedContent) == SplitFirst(generatedContent, ".") \o "."

(* The title made of the first sentence of the generated text.             *)
DerivedTitle(generatedContent) ==
  LET firstSentence == SplitFirst(generatedContent, ".")
  IN IF Len(firstSentence) > TitleSentenceLimit
     THEN Substring(generatedContent, 0, TitleCut) \o "..."
     ELSE firstSentence \o "."

(* The summary made of the first paragraph of the generated text.          *)
DerivedSummary(generatedContent) ==
  LET byBlankLine == SplitFirst(generatedContent, "\n\n")
      firstParagraph == IF byBlankLine # "" THEN byBlankLine
                        ELSE SplitFirst(generatedContent, "\n")
  IN IF Len(firstParagraph) > SummaryLimit
     THEN Substring(firstParagraph, 0, SummaryLimit) \o "..."
     ELSE firstParagraph

(* A source URL that prefers the one of the news item.                     *)
NewsUrlFirst(article, realNewsItem) ==
  Or(Or(Get(realNewsItem, "url"), Get(article, "Source URL")), Str(""))

(* article["Source URL"] || realNewsItem.url || ''                         *)
SourceUrl(article, realNewsItem) ==
  Or(Or(Get(article, "Source URL"), Get(realNewsItem, "url")), Str(""))

(* The callback of aiArticles.map for one element: [threw, rec], threw     *)
(* TRUE when it ends by a TypeError (a property read of null or undefined, *)
(* split or startsWith called on a value that is no string).  idx is       *)
(* 0-based.                                                                *)
MapArticle(article, idx, personName, newsData) ==
  LET Record(generatedContent, realNewsItem, title, summary, sourceUrl) ==
        IF \/ ~CanRead(article)
           \/ ~CanRead(newsData)
           \/ ~CanRead(realNewsItem)
           \/ Truthy(generatedContent) /\ generatedContent.t # "str"
           \/ Truthy(sourceUrl) /\ sourceUrl.t # "str"
        THEN [threw |-> TRUE, rec |-> <<>>]
        ELSE [threw |-> FALSE,
              rec |->
                ("id" :> Str(NumberToString(idx + 1)))
                @@ ("title" :> Or(title, Str(DefaultTitle(personName))))
                @@ ("originalTitle" :> Or(Get(realNewsItem, "title"), Str("")))
                @@ ("summary" :> IF summary # "" THEN Str(summary)
                                 ELSE Str(Substring(generatedContent.s, 0, SummaryLimit) \o "..."))
                @@ ("originalSummary" :> Or(Get(realNewsItem, "summary"), Str("")))
                @@ ("imageUrl" :> Str(GetRandomNewsImage(idx)))
                @@ ("publishedAt" :> Or(Or(Get(article, "Timestamp"),
                                           Get(realNewsItem, "published")), Str("Today")))
                @@ ("originalUrl" :> sourceUrl)
                @@ ("source" :> Or(Get(realNewsItem, "source"), Str("News Source")))
                @@ ("aiGenerated" :> Bool(TRUE))
                @@ ("isVerified" :> Bool(IsVerified(sourceUrl.s)))
                @@ ("Generated article" :> generatedContent)
                @@ ("Input person name" :> Str(personName))
                @@ ("Source URL" :> sourceUrl)
                @@ ("Original title" :> Or(Get(realNewsItem, "title"), Str("")))]
      Title(generatedContent, stated) ==
        IF ~Truthy(stated) /\ Truthy(generatedContent) /\ generatedContent.t = "str"
        THEN Str(DerivedTitle(generatedContent.s))
        ELSE stated
      Summary(generatedContent) ==
        IF Truthy(generatedContent) /\ generatedContent.t = "str"
        THEN DerivedSummary(generatedContent.s)
        ELSE ""
      Extract(generatedContent, realNewsItem) ==
        Record(generatedContent, realNewsItem,
               Title(generatedContent,
                     Or(Or(Get(article, "Original title"), Get(realNewsItem, "title")), Str(""))),
               Summary(generatedContent),
               SourceUrl(article, realNewsItem))
  IN Extract(Or(Get(article, "Generated article"), Str("")), RealNewsItem(newsData, idx))

FallbackMessage == "Unable to process the AI response properly. Please try again."

(* The "fallback article" of the catch block.                              *)
FallbackArticle(personName) ==
  ("id" :> Str("1"))
  @@ ("title" :> Str(DefaultTitle(personName)))
  @@ ("summary" :> Str(FallbackMessage))
  @@ ("imageUrl" :> Str(GetRandomNewsImage(0)))
  @@ ("publishedAt" :> Str("Today"))
  @@ ("originalUrl" :> Str(""))
  @@ ("source" :> Str("AI Generated"))
  @@ ("aiGenerated" :> Bool(TRUE))
  @@ ("isVerified" :> Bool(FALSE))
  @@ ("Generated article" :> Str(FallbackMessage))
  @@ ("Input person name" :> Str(personName))

ProcessFailedMessage == "Error processing AI response:"

(* A catch block that logs and returns no article.                         *)
ReturnNothing(personName, errors) ==
  [threw |-> FALSE, articles |-> <<>>, errors |-> Append(errors, ProcessFailedMessage)]

(* The catch block of processAIResponse.                                   *)
ProcessCatch(personName, errors) ==
  [threw |-> FALSE, articles |-> <<FallbackArticle(personName)>>,
   errors |-> Append(errors, ProcessFailedMessage)]

(* processAIResponse: [threw, articles, errors], articles the array        *)
(* returned and errors the messages given to console.error.                *)
ProcessAIResponse(aiText, personName, newsData) ==
  LET Return(aiArticles, mapped) ==
        IF aiArticles.threw \/ \E i \in 1..Len(mapped) : mapped[i].threw
        THEN ProcessCatch(personName, aiArticles.errors)
        ELSE [threw |-> FALSE,
              articles |-> [i \in 1..Len(mapped) |-> mapped[i].rec],
              errors |-> aiArticles.errors]
      Map(aiArticles) ==
        Return(aiArticles, [i \in 1..Len(aiArticles.val) |->
                              MapArticle(aiArticles.val[i], i - 1, personName, newsData)])
  IN Map(ExtractAndParseJSON(aiText))

----------------------------------------------------------------------------
(* The texts a language model returns for the format it is asked for, and  *)
(* the real-news lists the home screen hands over.                         *)

MaxLen == 3

MaxArticles == 2

(* The elements a returned array is made of: objects of the format asked   *)
(* for, with their fields present, missing or of another type, and null.   *)
ArticleShapes ==
  { Obj(<<"Generated article">>, <<Str("Hello world.")>>),
    Obj(<<"Timestamp", "Input person name", "Generated article", "Source URL", "Original title">>,
        <<Str("2025-06-01"), Str("Ada"), Str("One, two.\n\nThree"),
          Str("http://model.example/1"), Str("Stated")>>),
    Obj(<<"Generated article", "Source URL">>, <<Str("B ,] c"), Str("ftp://files.example/b")>>),
    Obj(<<"Generated article", "Source URL">>, <<Str("C"), Num(7)>>),
    Obj(<<"Generated article">>, <<Num(5)>>),
    Null }

(* The arrays of at most n elements.                                       *)
RECURSIVE ArraysUpTo(_)
ArraysUpTo(n) ==
  IF n = 0 THEN {<<>>}
  ELSE LET shorter == ArraysUpTo(n - 1)
       IN shorter \cup {Append(a, x) : a \in shorter, x \in ArticleShapes}

(* The values returned: an array, or one object alone.                     *)
ReturnedValues ==
  {Arr(a) : a \in ArraysUpTo(MaxArticles)} \cup {x \in ArticleShapes : x.t = "obj"}

(* The pieces of a sequence of texts joined by sep.                        *)
RECURSIVE JoinWith(_, _)
JoinWith(parts, sep) ==
  IF parts = <<>> THEN ""
  ELSE IF Len(parts) = 1 THEN parts[1]
  ELSE parts[1] \o sep \o JoinWith(Tail(parts), sep)

(* A value written as JSON text the way a language model may write it: nl  *)
(* is the white space after an opening bracket or a comma and before a     *)
(* closing bracket, cb what is written before a closing brace after the    *)
(* last member and ck the same before a closing bracket.                   *)
RECURSIVE Render(_, _, _, _)
Render(v, nl, cb, ck) ==
  CASE v.t = "arr" /\ Len(v.e) > 0 ->
         "[" \o nl \o JoinWith([i \in 1..Len(v.e) |-> Render(v.e[i], nl, cb, ck)], "," \o nl)
             \o ck \o nl \o "]"
    [] v.t = "obj" /\ Len(v.k) > 0 ->
         "{" \o nl \o JoinWith([i \in 1..Len(v.k) |->
                                  Quote(v.k[i]) \o ":" \o (IF nl = "" THEN "" ELSE " ")
                                    \o Render(v.e[i], nl, cb, ck)], "," \o nl)
             \o cb \o nl \o "}"
    [] OTHER -> Stringify(v)

(* The text wrapped in a Markdown code fence.                              *)
Fenced(text) == Fence \o "json\n" \o text \o "\n" \o Fence

(* The ways a comma is left before a closing brace or bracket: <<nl, cb,   *)
(* ck>> as Render takes them.                                              *)
CommaStyles == {<<"", ",", ",">>, <<"\n", ", ", "">>, <<" ", "", ",\n">>}

(* The ways one value is returned.                                         *)
TextsOf(v) ==
  { Render(v, "", "", ""),
    Render(v, "\n  ", "", ""),
    Fenced(Render(v, "", "", "")),
    Fenced(Render(v, "\n", ",", "")),
    "Here are the articles:\n" \o Render(v, "\n", "", "") \o "\nEnjoy {reading} [them].",
    SubSeq(Render(v, "", "", ""), 1, Len(Render(v, "", "", "")) - 2) }
  \cup {Render(v, st[1], st[2], st[3]) : st \in CommaStyles}

StructuredTexts == UNION {TextsOf(v) : v \in ReturnedValues}

(* The JSON texts of the values returned.                                  *)
PlainTexts == {Render(v, "", "", "") : v \in ReturnedValues}

(* Every text of at most n characters of Alphabet.                         *)
Alphabet == {"[", "]", "{", "}", ",", "\"", " ", "1"}

RECURSIVE TextsUpTo(_)
TextsUpTo(n) ==
  IF n = 0 THEN {""}
  ELSE LET shorter == TextsUpTo(n - 1)
       IN shorter \cup {t \o c : t \in shorter, c \in Alphabet}

ShortTexts == TextsUpTo(MaxLen)

(* An array written with a comma before every closing brace.               *)
TrailingCommaExample == "[{\"Generated article\":\"A\",},{\"Generated article\":\"B\",}]"

(* JSON texts that are neither an array nor an object.                     *)
ScalarTexts == {"\"a string\"", "42"}

(* Two articles outside any bracket, written with the escapes \n and \".  *)
EscapedQuoteExample ==
  "\"Generated article\": \"First\\nline\", \"Generated article\":\"Second \\\"one\\\"\""

(* An array with a raw newline between two words of a string value.       *)
RawNewlineExample == "[{\"Generated article\":\"Hello\nworld\"}]"

(* Texts with no JSON in them, or with pieces of it.                       *)
OtherTexts ==
  { "just some plain text",
    RawNewlineExample,
    " plain text between spaces ",
    TrailingCommaExample,
    "I cannot  answer that.\n\nSorry",
    EscapedQuoteExample,
    Fence \o "\nno json here\n" \o Fence,
    "  " \o Fenced("[{\"Generated article\":\"X\"}]") \o "\n",
    "{\"Generated article\":\"braces first\"} and then [1, 2]",
    "[{\"Generated article\":\"two  spaces, }\"}]" }
  \cup ScalarTexts \cup {Fenced(t) : t \in ScalarTexts}

(* A news item as handleSubmit makes it.                                   *)
NewsItem(title, summary, url, source, published) ==
  Obj(<<"title", "summary", "url", "source", "published">>,
      <<Str(title), Str(summary), Str(url), Str(source), Str(published)>>)

NewsItem1 == NewsItem("Summit agrees", "Leaders agreed.", "https://news.example/1", "GNN", "2025-06-01T10:00:00Z")

NewsItem2 == NewsItem("News Story 2", "No summary available", "", "Unknown Source", "2025-06-01T11:00:00Z")

(* params.realNewsData: JSON.stringify(newsData), a text that is no JSON,  *)
(* the JSON text of no list, or no parameter.                              *)
NewsParams ==
  { Str(Stringify(Arr(<<NewsItem1>>))),
    Str(Stringify(Arr(<<NewsItem1, NewsItem2>>))),
    Str("not json"),
    Str("null"),
    Undef }

PersonName == "Ada"

(* The parameters the screen is opened with: <<aiResponse, person,         *)
(* realNewsData>>.                                                         *)
ScreenParams ==
  ({Str(t) : t \in PlainTexts} \X {Str(PersonName)} \X NewsParams)
  \cup (({Str(t) : t \in StructuredTexts \cup ShortTexts \cup OtherTexts} \cup {Undef})
          \X {Str(PersonName)} \X {Str(Stringify(Arr(<<NewsItem1>>)))})
  \cup ({Str(t) : t \in OtherTexts} \X {Str(""), Undef} \X NewsParams)

----------------------------------------------------------------------------
(* The state.  aiResponse, person and realNewsData are the parameters of   *)
(* the route; articles, selectedPerson, realNewsState and                  *)
(* processingComplete are the state of NewsScreen; log holds the messages  *)
(* given to console.error; ret holds the result of a call of               *)
(* extractAndParseJSON(aiResponse), <<>> before the call.  effectPending   *)
(* says that the effect is due: React runs it after the first render and   *)
(* after each render in which one of its dependencies has changed.         *)

(* The home screen before any submission, with the name typed and the     *)
(* keys of the configuration; no source link has been pressed.             *)
HomeScreenAtRest(name, groqKey, rapidKey) ==
  /\ homePersonName = name /\ groqApiKey = groqKey /\ rapidApiKey = rapidKey
  /\ isLoading = FALSE /\ error = Null /\ usingMockData = FALSE
  /\ pc = "idle" /\ caller = "" /\ attempt = 0
  /\ requests = <<>> /\ responses = <<>> /\ fetched = <<>> /\ promptNews = <<>>
  /\ pushed = <<>> /\ alerts = 0 /\ result = <<>> /\ submissions = 0
  /\ waits = <<>>
  /\ linkLog = <<>> /\ articleParams = <<>>

Init ==
  /\ \E p \in ScreenParams : aiResponse = p[1] /\ person = p[2] /\ realNewsData = p[3]
  /\ ret = <<>>
  /\ articles = <<>>
  /\ selectedPerson = ""
  /\ realNewsState = Arr(<<>>)
  /\ processingComplete = FALSE
  /\ effectPending = TRUE
  /\ log = <<>>
  /\ paramChanges = 0
  /\ HomeScreenAtRest("Ada", "gsk", "rapid")

(* A call of extractAndParseJSON with the text of the route.               *)
CallExtractAndParseJSON ==
  /\ ret = <<>>
  /\ ret' = <<ExtractAndParseJSON(aiResponse)>>
  /\ UNCHANGED <<aiResponse, person, realNewsData, articles, selectedPerson,
                 realNewsState, processingComplete, effectPending, log, paramChanges>>
  /\ UNCHANGED homeVars
  /\ UNCHANGED linkVars

NewsParseFailedMessage == "Error parsing real news data:"

NeverProcessed(complete) == FALSE

(* if (processingComplete) return;                                         *)
AlreadyProcessed(complete) == complete

(* The effect of NewsScreen that parses the AI response.                   *)
ProcessingEffect ==
  /\ effectPending
  /\ IF AlreadyProcessed(processingComplete)
     THEN /\ effectPending' = FALSE
          /\ UNCHANGED <<articles, selectedPerson, realNewsState, processingComplete, log>>
     ELSE
       LET personName == IF Truthy(person) THEN person.s ELSE ""
           Process(parsedRealNews, newsErrors, processed) ==
             /\ selectedPerson' = IF Truthy(person) THEN personName ELSE selectedPerson
             /\ realNewsState' = IF parsedRealNews.ok THEN parsedRealNews.v ELSE realNewsState
             /\ IF Truthy(aiResponse) /\ personName # ""
                THEN /\ articles' = processed.articles
                     /\ processingComplete' = TRUE
                     /\ effectPending' = TRUE
                     /\ log' = log \o newsErrors \o processed.errors
                ELSE /\ log' = log \o newsErrors
                     /\ effectPending' = FALSE
                     /\ UNCHANGED <<articles, processingComplete>>
           Parse(parsedRealNews) ==
             Process(parsedRealNews,
                     IF Truthy(realNewsData) /\ ~parsedRealNews.ok
                     THEN <<NewsParseFailedMessage>> ELSE <<>>,
                     ProcessAIResponse(aiResponse, personName,
                                       IF parsedRealNews.ok THEN parsedRealNews.v ELSE Arr(<<>>)))
       IN Parse(IF Truthy(realNewsData) THEN JSONParse(realNewsData.s)
                ELSE [ok |-> FALSE, v |-> Undef])
  /\ UNCHANGED <<aiResponse, person, realNewsData, ret, paramChanges>>
  /\ UNCHANGED homeVars
  /\ UNCHANGED linkVars

Next == CallExtractAndParseJSON \/ ProcessingEffect

Spec == Init /\ [][Next]_vars

----------------------------------------------------------------------------
(* A display session of the news screen: the instance stays mounted while  *)
(* the route is pushed again with other params.  Each change of a param    *)
(* the effect depends on makes the effect due again.                       *)

MaxParamChanges == 2

SessionTexts ==
  { Str("[{\"Generated article\":\"One\"}]"),
    Str("{\"Generated article\":\"Two\"}"),
    Undef }

SessionPersons == {Str("Ada"), Str("Bob"), Undef}

SessionNews ==
  { Str(Stringify(Arr(<<NewsItem1>>))),
    Str(Stringify(Arr(<<NewsItem2, NewsItem1>>))),
    Str("not json") }

SessionParams == SessionTexts \X SessionPersons \X SessionNews

SessionInit ==
  /\ \E p \in SessionParams : aiResponse = p[1] /\ person = p[2] /\ realNewsData = p[3]
  /\ ret = <<>>
  /\ articles = <<>>
  /\ selectedPerson = ""
  /\ realNewsState = Arr(<<>>)
  /\ processingComplete = FALSE
  /\ effectPending = TRUE
  /\ log = <<>>
  /\ paramChanges = 0
  /\ HomeScreenAtRest("Ada", "gsk", "rapid")

(* The route is pushed again: the params of the mounted screen change.     *)
ParamsChange ==
  /\ paramChanges < MaxParamChanges
  /\ paramChanges' = paramChanges + 1
  /\ \E p \in SessionParams \ {<<aiResponse, person, realNewsData>>} :
       aiResponse' = p[1] /\ person' = p[2] /\ realNewsData' = p[3]
  /\ effectPending' = TRUE
  /\ UNCHANGED <<ret, articles, selectedPerson, realNewsState, processingComplete, log>>
  /\ UNCHANGED homeVars
  /\ UNCHANGED linkVars

SessionNext == ProcessingEffect \/ ParamsChange

SessionSpec == SessionInit /\ [][SessionNext]_vars

----------------------------------------------------------------------------
(* extractAndParseJSON called by itself, on every text of the model and on *)
(* undefined.                                                              *)

ParserTexts ==
  {Str(t) : t \in StructuredTexts \cup ShortTexts \cup OtherTexts} \cup {Undef}

ParserInit ==
  /\ aiResponse \in ParserTexts
  /\ person = Undef
  /\ realNewsData = Undef
  /\ ret = <<>>
  /\ articles = <<>>
  /\ selectedPerson = ""
  /\ realNewsState = Arr(<<>>)
  /\ processingComplete = FALSE
  /\ effectPending = FALSE
  /\ log = <<>>
  /\ paramChanges = 0
  /\ HomeScreenAtRest("Ada", "gsk", "rapid")

ParserNext == CallExtractAndParseJSON

ParserSpec == ParserInit /\ [][ParserNext]_vars

----------------------------------------------------------------------------
(* processAIResponse on the arrays of the format asked for and on bodies   *)
(* at the limits of the title and of the summary: a first sentence of 80   *)
(* and of 81 characters, a first paragraph of 200 and of 201, a body with  *)
(* one newline, one that begins with a blank line, an empty one and one    *)
(* with no period.  Each body is the "Generated article" of an array of    *)
(* one article, written as JSON text.                                      *)

NormalizeBodies ==
    { "The committee met for many hours and weighed each proposal with great care befor. More follows here.",
      "The committee met for many hours and weighed each proposal with great care before. More follows here.",
      "The committee met for many hours and weighed each proposal with great care before it agreed on a plan that every member of the council could accept without any further change to the wording of the tex",
      "The committee met for many hours and weighed each proposal with great care before it agreed on a plan that every member of the council could accept without any further change to the wording of the text\n\nSecond paragraph.",
      "First line\nsecond line",
      "\n\nAfter a blank line. The committee met for many hours and weighed each proposal with great care before it agreed on a plan that every member of the council could accept without any further change to the wording of the tex",
      "",
      "No period here" }

NormalizeTexts ==
  PlainTexts
    \cup {Stringify(Arr(<<Obj(<<"Generated article">>, <<Str(body)>>)>>)) :
            body \in NormalizeBodies}

NormalizeInit ==
  /\ aiResponse \in {Str(t) : t \in NormalizeTexts}
  /\ person = Str(PersonName)
  /\ realNewsData \in NewsParams
  /\ ret = <<>>
  /\ articles = <<>>
  /\ selectedPerson = ""
  /\ realNewsState = Arr(<<>>)
  /\ processingComplete = FALSE
  /\ effectPending = TRUE
  /\ log = <<>>
  /\ paramChanges = 0
  /\ HomeScreenAtRest("Ada", "gsk", "rapid")

NormalizeSpec == NormalizeInit /\ [][Next]_vars

----------------------------------------------------------------------------
(* The home screen.  A response of a server is [kind, status, text, body]: *)
(* kind is "network" when fetch rejects and "http" when it resolves;       *)
(* status is the HTTP status, text the body as response.text() gives it    *)
(* and body the value response.json() resolves to, Undef when it rejects.  *)
(* An error thrown is [name, message].                                     *)

MAX_RETRIES == 3

RETRY_DELAY == 2000

(* A wait of the base delay whatever the attempt.                          *)
FixedDelay(n) == RETRY_DELAY

(* wait(RETRY_DELAY * attempt): the milliseconds waited after attempt n,   *)
(* the same in the 503 branch and in the catch block.                      *)
Backoff(n) == RETRY_DELAY * n

Error(message) == [name |-> "Error", message |-> message]

TypeError(message) == [name |-> "TypeError", message |-> message]

SyntaxError(message) == [name |-> "SyntaxError", message |-> message]

NetworkFailure == [kind |-> "network", status |-> 0, text |-> "", body |-> Undef]

HttpResponse(status, text, body) ==
  [kind |-> "http", status |-> status, text |-> text, body |-> body]

(* response.ok                                                             *)
Ok(response) == response.status >= 200 /\ response.status <= 299

(* String.prototype.includes                                               *)
Includes(s, p) == FirstMatch(s, p, 1) # 0

KeyIsEmpty(key) == key = ""

(* !key || key.trim() === ''                                               *)
KeyIsBlank(key) == key = "" \/ Trim(key) = ""

GroqKeyMissingMessage ==
  "GROQ_API_KEY is not configured. Please check your .env file and restart the development server."

RapidKeyMissingMessage ==
  "RAPIDAPI_KEY is not configured. Please add your RapidAPI key to generate real news perspectives."

FetchRealNewsConfigMessage ==
  "RAPIDAPI_KEY is not configured. Please add your RapidAPI key to the environment variables."

GroqResponseConfigMessage ==
  "GROQ_API_KEY is not set. Please check your environment configuration."

NetworkFailedMessage == "Network request failed"

(* new Date().toISOString()                                                *)
Now == "2025-06-01T12:00:00.000Z"

MockArticle(title, snippet, link, source_name) ==
  Obj(<<"title", "snippet", "link", "source_name", "published_datetime_utc">>,
      <<Str(title), Str(snippet), Str(link), Str(source_name), Str(Now)>>)

GetMockNewsData ==
  Arr(<< MockArticle("Global Climate Summit Reaches Historic Agreement on Carbon Reduction",
                     "World leaders at the Global Climate Summit have reached a groundbreaking agreement on carbon reduction targets, with 195 countries committing to ambitious new goals for 2030.",
                     "https://example.com/climate-summit-agreement",
                     "Global News Network"),
          MockArticle("Breakthrough in Quantum Computing Promises Revolutionary Changes",
                     "Scientists have achieved a major breakthrough in quantum computing technology, demonstrating a new quantum processor that could revolutionize computing power and solve complex problems.",
                     "https://example.com/quantum-computing-breakthrough",
                     "Tech Today"),
          MockArticle("International Space Station Welcomes New Research Mission",
                     "The International Space Station has welcomed a new crew of astronauts who will conduct groundbreaking research in microgravity, including experiments in medicine and materials science.",
                     "https://example.com/iss-new-mission",
                     "Space News Daily") >>)

(* The error thrown for a response of the news API that is not ok; prefix  *)
(* is "" in fetchRealNews and "Fallback " in fetchFallbackNews.            *)
NewsApiError(status, prefix) ==
  IF status = 404 THEN
    IF prefix = ""
    THEN Error("News API returned 404. This may indicate an issue with your RapidAPI subscription or the search parameters. Please check your RapidAPI dashboard and ensure your subscription is active.")
    ELSE Error("Fallback News API returned 404. Please verify your RapidAPI subscription includes access to the Real-Time News Data API endpoints.")
  ELSE IF status = 429 THEN
    IF prefix = ""
    THEN Error("Rate limit exceeded (429). You've reached your RapidAPI quota limit. Please check your RapidAPI dashboard to upgrade your plan or wait for the quota to reset.")
    ELSE Error("Rate limit exceeded on fallback API (429). Your RapidAPI quota has been exhausted. Please upgrade your plan or wait for quota reset.")
  ELSE Error(prefix \o "News API error: " \o NumberToString(status))

(* A news fetch whose try block always throws.                             *)
NewsNeverRead(response, prefix) ==
  [threw |-> TRUE, error |-> Error("News API error"), val |-> Undef]

(* The try block of fetchRealNews and of fetchFallbackNews for a response: *)
(* [threw, error, val].                                                    *)
NewsTry(response, prefix) ==
  IF response.kind = "network"
  THEN [threw |-> TRUE, error |-> TypeError(NetworkFailedMessage), val |-> Undef]
  ELSE IF ~Ok(response)
  THEN [threw |-> TRUE, error |-> NewsApiError(response.status, prefix), val |-> Undef]
  ELSE IF response.body.t = "undefined"
  THEN [threw |-> TRUE, error |-> SyntaxError("JSON Parse error"), val |-> Undef]
  ELSE IF ~CanRead(response.body)
  THEN [threw |-> TRUE, error |-> TypeError("Cannot read property 'data' of null"),
        val |-> Undef]
  ELSE [threw |-> FALSE, error |-> Error(""),
        val |-> Or(Get(response.body, "data"), Arr(<<>>))]

(* !realNewsArticles || realNewsArticles.length === 0                      *)
NoNews(realNewsArticles) == ~Truthy(realNewsArticles) \/ Len(realNewsArticles.e) = 0

FetchedArticles(realNewsArticles) == realNewsArticles

(* The articles the prompt is made of: the fetched ones, or the built-in   *)
(* sample set when there are none.                                         *)
ArticlesOrMock(realNewsArticles) ==
  IF NoNews(realNewsArticles) THEN GetMockNewsData ELSE realNewsArticles

(* realNewsArticles.some(article => article.link &&                        *)
(*                                   article.link.includes('example.com')) *)
IsMockData(realNewsArticles) ==
  \E i \in 1..Len(realNewsArticles.e) :
    /\ Truthy(Get(realNewsArticles.e[i], "link"))
    /\ Includes(Get(realNewsArticles.e[i], "link").s, "example.com")

(* The news data prepared for the AI from articles of the news API.        *)
PrepareNewsData(found) ==
  [i \in 1..Len(found.e) |->
     Obj(<<"title", "summary", "url", "source", "published">>,
         << Or(Get(found.e[i], "title"), Str("News Story " \o NumberToString(i))),
            Or(Or(Get(found.e[i], "snippet"), Get(found.e[i], "summary")),
               Str("No summary available")),
            Or(Or(Get(found.e[i], "link"), Get(found.e[i], "url")), Str("")),
            Or(Or(Get(found.e[i], "source_name"), Get(found.e[i], "source")),
               Str("Unknown Source")),
            Or(Or(Get(found.e[i], "published_datetime_utc"), Get(found.e[i], "published_at")),
               Str(Now)) >>)]

RetryAlways(e, n) == [do |-> "retry", error |-> e, content |-> Undef]

(* The catch block of groqResponse's loop for an error thrown in the try   *)
(* block of the given attempt: [do, error], do "retry" or "throw".         *)
GroqCatch(e, n) ==
  IF n < MAX_RETRIES /\ (e.name = "TypeError" \/ Includes(e.message, "fetch"))
  THEN [do |-> "retry", error |-> e, content |-> Undef]
  ELSE [do |-> "throw", error |-> e, content |-> Undef]

GroqUnavailableMessage(response) ==
  "Groq service is temporarily unavailable. Please try again in a few minutes. (Error: "
    \o NumberToString(response.status) \o " - " \o response.text \o ")"

GroqApiErrorMessage(response) ==
  "Groq API error: " \o NumberToString(response.status) \o " - " \o response.text

(* data.choices[0].message.content: [threw, val].                          *)
ContentOf(data) ==
  LET Read(choices, first, message) ==
        IF ~CanRead(data) \/ ~CanRead(choices) \/ ~CanRead(first) \/ ~CanRead(message)
        THEN [threw |-> TRUE, val |-> Undef]
        ELSE [threw |-> FALSE, val |-> Get(message, "content")]
      First(choices, first) == Read(choices, first, Get(first, "message"))
      Choices(choices) == First(choices, Index(choices, 0))
  IN Choices(Get(data, "choices"))

(* One pass of groqResponse's loop for the response to the request of      *)
(* attempt n: [do, error, content], do "retry", "throw" or "return".       *)
GroqAttempt(response, n) ==
  IF response.kind = "network" THEN GroqCatch(TypeError(NetworkFailedMessage), n)
  ELSE IF ~Ok(response) THEN
    IF response.status = 503 THEN
      IF n < MAX_RETRIES
      THEN [do |-> "retry", error |-> Error(""), content |-> Undef]
      ELSE GroqCatch(Error(GroqUnavailableMessage(response)), n)
    ELSE GroqCatch(Error(GroqApiErrorMessage(response)), n)
  ELSE IF response.body.t = "undefined" THEN GroqCatch(SyntaxError("JSON Parse error"), n)
  ELSE IF ContentOf(response.body).threw
  THEN GroqCatch(TypeError("Cannot read property of undefined"), n)
  ELSE [do |-> "return", error |-> Error(""), content |-> ContentOf(response.body).val]

----------------------------------------------------------------------------
(* The home screen as a state machine.  pc is where the running call       *)
(* waits: "idle" when nothing runs, "awaitNews", "awaitFallback" and       *)
(* "awaitGroq" at the await of a fetch.  caller is the call begun:         *)
(* "handleSubmit" when the screen runs the functions, "fetchRealNews" or   *)
(* "groqResponse" when one of them is called by itself.  requests lists    *)
(* the requests issued since the call began and responses the answers they *)
(* got; fetched holds what fetchRealNews has returned to handleSubmit,     *)
(* promptNews the news data of the prompt, pushed the params given to      *)
(* router.push, alerts counts the alerts shown, result holds the outcome   *)
(* of a function called by itself and submissions counts the calls begun.  *)

MaxCalls == 2

HomeNames == {"", " ", " Ada "}

ApiKeys == {"", " ", "gsk"}

FoundArticle(link) ==
  Obj(<<"title", "snippet", "link", "source_name", "published_datetime_utc">>,
      <<Str("Markets rally"), Str("Shares rose."), Str(link), Str("Wire"), Str(Now)>>)

NewsBodies ==
  { Obj(<<"data">>, <<Arr(<<FoundArticle("https://news.org/markets")>>)>>),
    Obj(<<"data">>, <<Arr(<<FoundArticle("https://example.com/markets")>>)>>),
    Obj(<<"data">>, <<Arr(<<Obj(<<"url">>, <<Str("https://news.org/bare")>>)>>)>>),
    Obj(<<"data">>, <<Arr(<<>>)>>),
    Obj(<<"status">>, <<Str("OK")>>),
    Null,
    Undef }

NewsResponses ==
  {NetworkFailure}
    \cup {HttpResponse(status, "", Undef) : status \in {404, 429, 500}}
    \cup {HttpResponse(200, "", body) : body \in NewsBodies}

Completion(content) ==
  Obj(<<"choices">>,
      <<Arr(<<Obj(<<"message">>, <<Obj(<<"content">>, <<content>>)>>)>>)>>)

GroqBodies ==
  { Completion(Str("[{\"Generated article\":\"As I see it\"}]")),
    Completion(Str("As I see it")),
    Obj(<<"choices">>, <<Arr(<<>>)>>),
    Undef }

GroqResponses ==
  {NetworkFailure}
    \cup { HttpResponse(503, "busy", Undef),
           HttpResponse(400, "bad request", Undef),
           HttpResponse(400, "upstream fetch failed", Undef),
           HttpResponse(429, "slow down", Undef) }
    \cup {HttpResponse(200, "", body) : body \in GroqBodies}

HomeInit ==
  /\ aiResponse = Undef /\ person = Undef /\ realNewsData = Undef
  /\ ret = <<>> /\ articles = <<>> /\ selectedPerson = ""
  /\ realNewsState = Arr(<<>>) /\ processingComplete = FALSE
  /\ effectPending = FALSE /\ log = <<>> /\ paramChanges = 0
  /\ \E name \in HomeNames, groqKey \in ApiKeys, rapidKey \in ApiKeys :
       HomeScreenAtRest(name, groqKey, rapidKey)

(* The text input, editable when nothing is loading.                       *)
SetPersonName ==
  /\ pc = "idle" /\ ~isLoading
  /\ \E name \in HomeNames \ {homePersonName} : homePersonName' = name
  /\ UNCHANGED <<groqApiKey, rapidApiKey, isLoading, error, usingMockData, pc, caller,
                 attempt, requests, responses, fetched, promptNews, pushed, alerts,
                 result, submissions, waits>>
  /\ UNCHANGED newsVars
  /\ UNCHANGED linkVars

(* A call that ends without the catch block of handleSubmit.               *)
EndStillLoading(who, e) ==
  /\ pc' = "idle"
  /\ result' = <<[threw |-> TRUE, error |-> e, val |-> Undef]>>
  /\ UNCHANGED <<isLoading, error>>

(* The call begun by who ends by throwing e: the catch block of            *)
(* handleSubmit, or the rejection a direct caller gets.                    *)
EndByThrow(who, e) ==
  /\ pc' = "idle"
  /\ IF who = "handleSubmit"
     THEN isLoading' = FALSE /\ error' = Str(e.message) /\ result' = <<>>
     ELSE /\ result' = <<[threw |-> TRUE, error |-> e, val |-> Undef]>>
          /\ UNCHANGED <<isLoading, error>>

(* fetchRealNews begun with isLoading left false.                          *)
FetchWithoutLoading(who, loading, err) ==
  IF KeyIsBlank(rapidApiKey)
  THEN requests' = <<>> /\ EndByThrow(who, Error(FetchRealNewsConfigMessage))
  ELSE /\ requests' = <<"news">> /\ pc' = "awaitNews"
       /\ isLoading' = FALSE /\ error' = err /\ result' = <<>>

(* fetchRealNews up to its fetch, begun by who; loading and err are        *)
(* isLoading and error at that point.                                      *)
FetchRealNews(who, loading, err) ==
  IF KeyIsBlank(rapidApiKey)
  THEN requests' = <<>> /\ EndByThrow(who, Error(FetchRealNewsConfigMessage))
  ELSE /\ requests' = <<"news">> /\ pc' = "awaitNews"
       /\ isLoading' = loading /\ error' = err /\ result' = <<>>

(* groqResponse up to the fetch of its first attempt, begun by who after   *)
(* the requests sent.                                                      *)
GroqResponse(who, sent) ==
  IF KeyIsBlank(groqApiKey)
  THEN attempt' = 0 /\ requests' = sent /\ EndByThrow(who, Error(GroqResponseConfigMessage))
  ELSE /\ attempt' = 1 /\ requests' = Append(sent, "groq") /\ pc' = "awaitGroq"
       /\ UNCHANGED <<isLoading, error>> /\ result' = <<>>

(* The press of the submit button, up to the first await.  The button is   *)
(* disabled while isLoading, and handleSubmit itself has no other guard.   *)
HandleSubmit ==
  /\ ~isLoading /\ submissions < MaxCalls
  /\ pc = "idle" \/ caller = "handleSubmit"
  /\ submissions' = submissions + 1
  /\ caller' = "handleSubmit"
  /\ attempt' = 0 /\ responses' = <<>> /\ fetched' = <<>> /\ promptNews' = <<>>
  /\ pushed' = <<>> /\ waits' = <<>>
  /\ IF Trim(homePersonName) = ""
     THEN /\ alerts' = alerts + 1
          /\ requests' = <<>> /\ result' = <<>>
          /\ UNCHANGED <<isLoading, error, usingMockData, pc>>
     ELSE IF KeyIsBlank(groqApiKey)
     THEN /\ error' = Str(GroqKeyMissingMessage)
          /\ requests' = <<>> /\ result' = <<>>
          /\ UNCHANGED <<isLoading, usingMockData, pc, alerts>>
     ELSE IF KeyIsBlank(rapidApiKey)
     THEN /\ error' = Str(RapidKeyMissingMessage)
          /\ requests' = <<>> /\ result' = <<>>
          /\ UNCHANGED <<isLoading, usingMockData, pc, alerts>>
     ELSE /\ usingMockData' = FALSE
          /\ FetchRealNews("handleSubmit", TRUE, Null)
          /\ UNCHANGED alerts
  /\ UNCHANGED <<homePersonName, groqApiKey, rapidApiKey>>
  /\ UNCHANGED newsVars
  /\ UNCHANGED linkVars

(* fetchRealNews called by itself.                                         *)
CallFetchRealNews ==
  /\ pc = "idle" /\ submissions < MaxCalls
  /\ submissions' = submissions + 1
  /\ caller' = "fetchRealNews"
  /\ attempt' = 0 /\ responses' = <<>> /\ fetched' = <<>> /\ promptNews' = <<>>
  /\ pushed' = <<>> /\ waits' = <<>>
  /\ FetchRealNews("fetchRealNews", isLoading, error)
  /\ UNCHANGED <<homePersonName, groqApiKey, rapidApiKey, usingMockData, alerts>>
  /\ UNCHANGED newsVars
  /\ UNCHANGED linkVars

(* groqResponse called by itself with a prompt made of the sample set.     *)
CallGroqResponse ==
  /\ pc = "idle" /\ submissions < MaxCalls
  /\ submissions' = submissions + 1
  /\ caller' = "groqResponse"
  /\ responses' = <<>> /\ fetched' = <<>> /\ pushed' = <<>> /\ waits' = <<>>
  /\ promptNews' = PrepareNewsData(GetMockNewsData)
  /\ GroqResponse("groqResponse", <<>>)
  /\ UNCHANGED <<homePersonName, groqApiKey, rapidApiKey, usingMockData, alerts>>
  /\ UNCHANGED newsVars
  /\ UNCHANGED linkVars

(* The usingMockData param of router.push.                                 *)
MockFlag(realNewsArticles) ==
  IF NoNews(realNewsArticles) THEN "true"
  ELSE IF IsMockData(realNewsArticles) THEN "true" ELSE "false"

(* fetchRealNews returns realNewsArticles: a direct caller gets them;      *)
(* handleSubmit prepares the news data and calls groqResponse.             *)
NewsReturns(realNewsArticles) ==
  IF caller # "handleSubmit"
  THEN /\ result' = <<[threw |-> FALSE, error |-> Error(""), val |-> realNewsArticles]>>
       /\ pc' = "idle"
       /\ UNCHANGED <<isLoading, error, usingMockData, attempt, requests, fetched,
                      promptNews>>
  ELSE /\ fetched' = <<realNewsArticles>>
       /\ usingMockData' = IF NoNews(realNewsArticles) \/ IsMockData(realNewsArticles)
                           THEN TRUE ELSE usingMockData
       /\ promptNews' = PrepareNewsData(ArticlesOrMock(realNewsArticles))
       /\ GroqResponse(caller, requests)

(* The answer to the request of fetchRealNews.                             *)
NewsResponds ==
  /\ pc = "awaitNews"
  /\ \E response \in NewsResponses :
       /\ responses' = Append(responses, response)
       /\ IF NewsTry(response, "").threw
          THEN /\ requests' = Append(requests, "fallback")
               /\ pc' = "awaitFallback"
               /\ UNCHANGED <<isLoading, error, usingMockData, attempt, fetched,
                              promptNews, result>>
          ELSE NewsReturns(NewsTry(response, "").val)
  /\ UNCHANGED <<homePersonName, groqApiKey, rapidApiKey, caller, pushed, alerts,
                 submissions, waits>>
  /\ UNCHANGED newsVars
  /\ UNCHANGED linkVars

(* The answer to the request of fetchFallbackNews.                         *)
FallbackResponds ==
  /\ pc = "awaitFallback"
  /\ \E response \in NewsResponses :
       /\ responses' = Append(responses, response)
       /\ IF NewsTry(response, "Fallback ").threw
          THEN NewsReturns(GetMockNewsData)
          ELSE NewsReturns(NewsTry(response, "Fallback ").val)
  /\ UNCHANGED <<homePersonName, groqApiKey, rapidApiKey, caller, pushed, alerts,
                 submissions, waits>>
  /\ UNCHANGED newsVars
  /\ UNCHANGED linkVars

(* The params of router.push.                                              *)
PushParams(content) ==
  [person |-> Trim(homePersonName), aiResponse |-> content,
   realNewsData |-> Stringify(Arr(promptNews)), usingMockData |-> MockFlag(fetched[1])]

(* The answer to the request of the running attempt of groqResponse.  A    *)
(* continue at the last attempt would end the for loop: groqResponse would *)
(* return undefined, and reading groqOutput[1] in handleSubmit would       *)
(* throw.                                                                  *)
GroqResponds ==
  /\ pc = "awaitGroq"
  /\ \E response \in GroqResponses :
       LET After(out) ==
             IF out.do = "retry" /\ attempt + 1 <= MAX_RETRIES
             THEN /\ attempt' = attempt + 1
                  /\ waits' = Append(waits, Backoff(attempt))
                  /\ requests' = Append(requests, "groq")
                  /\ UNCHANGED <<pc, isLoading, error, result, pushed>>
             ELSE IF out.do = "retry" /\ caller = "handleSubmit"
             THEN /\ waits' = Append(waits, Backoff(attempt))
                  /\ EndByThrow(caller, TypeError("Cannot read property '1' of undefined"))
                  /\ UNCHANGED <<attempt, requests, pushed>>
             ELSE IF out.do = "retry"
             THEN /\ waits' = Append(waits, Backoff(attempt))
                  /\ result' = <<[threw |-> FALSE, error |-> Error(""), val |-> Undef]>>
                  /\ pc' = "idle"
                  /\ UNCHANGED <<attempt, requests, isLoading, error, pushed>>
             ELSE IF out.do = "throw"
             THEN /\ EndByThrow(caller, out.error)
                  /\ UNCHANGED <<attempt, requests, pushed, waits>>
             ELSE IF caller = "handleSubmit"
             THEN /\ isLoading' = FALSE
                  /\ pushed' = <<PushParams(out.content)>>
                  /\ pc' = "idle"
                  /\ UNCHANGED <<attempt, requests, error, result, waits>>
             ELSE /\ result' = <<[threw |-> FALSE, error |-> Error(""),
                                  val |-> out.content]>>
                  /\ pc' = "idle"
                  /\ UNCHANGED <<attempt, requests, isLoading, error, pushed, waits>>
       IN /\ responses' = Append(responses, response)
          /\ After(GroqAttempt(response, attempt))
  /\ UNCHANGED <<homePersonName, groqApiKey, rapidApiKey, usingMockData, caller,
                 fetched, promptNews, alerts, submissions>>
  /\ UNCHANGED newsVars
  /\ UNCHANGED linkVars

HomeNext ==
  \/ SetPersonName
  \/ HandleSubmit
  \/ CallFetchRealNews
  \/ CallGroqResponse
  \/ NewsResponds
  \/ FallbackResponds
  \/ GroqResponds

HomeSpec == HomeInit /\ [][HomeNext]_vars

(* The home screen when every request sent is answered: each await of a    *)
(* fetch resumes.                                                          *)
HomeFairSpec ==
  /\ HomeSpec
  /\ WF_vars(NewsResponds) /\ WF_vars(FallbackResponds) /\ WF_vars(GroqResponds)

----------------------------------------------------------------------------
(* Properties of extractAndParseJSON and processAIResponse.  ret[1] is the *)
(* result of extractAndParseJSON(aiResponse) once the call is made;        *)
(* articles is what processAIResponse returned once processingComplete.    *)

Called == ret # <<>>

Article(text) == Obj(<<"Generated article">>, <<Str(text)>>)

Brackets == {"[", "]", "{", "}"}

HasNoBracket(s) == \A i \in 1..Len(s) : Ch(s, i) \notin Brackets

(* C1: for every raw input string, extractAndParseJSON returns a sequence  *)
(* of at least one element.                                                *)
C1_ReturnsAtLeastOne == Called /\ aiResponse.t = "str" => Len(ret[1].val) >= 1

(* C2: extractAndParseJSON never ends by an exception, whatever the input  *)
(* (a string or undefined); when its try block fails, the call returns     *)
(* the regex matches or the whole text.                                    *)
C2_NeverThrows ==
  Called =>
    /\ ~ret[1].threw
    /\ ~StrictTier(aiResponse).ok => ret[1].tier \in {2, 3} /\ Len(ret[1].val) >= 1

C2_Witness ==
  /\ Called
  /\ aiResponse = Undef
  /\ ~ret[1].threw
  /\ ret[1].val = <<Obj(<<"Generated article">>, <<Undef>>)>>

(* C3: for every non-empty aiResponse and every real-news list,            *)
(* processAIResponse returns at least one record, so that the screen is    *)
(* never left with zero articles.                                          *)
C3_AtLeastOneRecord == processingComplete => Len(articles) >= 1

(* An element the map callback throws on: null, or an object whose         *)
(* "Generated article" or "Source URL" is a truthy value that is no        *)
(* string.                                                                 *)
NotAString(v) == Truthy(v) /\ v.t # "str"

MakesMapThrow(article) ==
  \/ article.t \in {"null", "undefined"}
  \/ NotAString(Get(article, "Generated article"))
  \/ NotAString(Get(article, "Source URL"))

(* The news parameter parses to null, and reading newsData[idx] throws.    *)
NewsIsNull == realNewsData = Str("null")

(* C4: when the map callback throws on a parsed element (the element, or   *)
(* the news list it indexes, is such that a read or a call throws),        *)
(* processAIResponse does not throw and returns exactly one record, with   *)
(* id "1", isVerified false, an empty originalUrl and the fallback message *)
(* as its text; the error is logged.                                       *)
C4_FallbackRecord ==
  (/\ processingComplete
   /\ Called
   /\ \E i \in 1..Len(ret[1].val) : MakesMapThrow(ret[1].val[i]) \/ NewsIsNull)
  => /\ Len(articles) = 1
     /\ articles[1]["id"] = Str("1")
     /\ articles[1]["isVerified"] = Bool(FALSE)
     /\ articles[1]["originalUrl"] = Str("")
     /\ articles[1]["Generated article"]
          = Str("Unable to process the AI response properly. Please try again.")
     /\ \E n \in 1..Len(log) : log[n] = ProcessFailedMessage

C4_Witness ==
  /\ processingComplete
  /\ Called
  /\ Len(ret[1].val) = 2
  /\ ret[1].val[1].t = "obj"
  /\ NotAString(Get(ret[1].val[2], "Source URL"))
  /\ articles = <<FallbackArticle(selectedPerson)>>

BeginsWithHttp(u) == u.t = "str" /\ Len(u.s) >= 4 /\ SubSeq(u.s, 1, 4) = "http"

(* C5: every record has isVerified = true exactly when its originalUrl is  *)
(* a non-empty string that begins with "http".                             *)
C5_VerifiedIffHttp ==
  processingComplete =>
    \A i \in 1..Len(articles) :
      articles[i]["isVerified"] = Bool(BeginsWithHttp(articles[i]["originalUrl"]))

C5_Witness ==
  /\ processingComplete
  /\ Len(articles) = 2
  /\ articles[1]["originalUrl"] = Str("http://model.example/1")
  /\ articles[1]["isVerified"] = Bool(TRUE)
  /\ articles[2]["originalUrl"] = Str("ftp://files.example/b")
  /\ articles[2]["isVerified"] = Bool(FALSE)

HasArticleMatch(s) == \E i \in 1..Len(s) : MatchesAt(s, i)

(* C6 as stated: for every input that holds no bracket and no brace, the   *)
(* result is one record that holds the whole input, verbatim, as its       *)
(* "Generated article" and nothing else.                                   *)
C6_BracketFreeIsWholeText ==
  Called /\ aiResponse.t = "str" /\ HasNoBracket(aiResponse.s)
  => ret[1].val = <<Article(aiResponse.s)>>

(* C6, amended: the same for every input that holds no bracket, no brace,  *)
(* and no match of /"Generated article":\s*"([^"]+)"/.                     *)
C6_PlainTextIsWholeText ==
  Called /\ aiResponse.t = "str" /\ HasNoBracket(aiResponse.s)
         /\ ~HasArticleMatch(aiResponse.s)
  => ret[1].val = <<Article(aiResponse.s)>>

C6_Witness ==
  /\ Called
  /\ aiResponse = Str(" plain text between spaces ")
  /\ ret[1].tier = 3
  /\ ret[1].val = <<Article(" plain text between spaces ")>>

(* The texts of the arrays returned with commas left before closers, each  *)
(* with the text of the same array written without them.                   *)
CommaTexts ==
  {<<Render(v, st[1], st[2], st[3]), Render(v, st[1], "", "")>> :
     v \in {x \in ReturnedValues : x.t = "arr"}, st \in CommaStyles}

(* C7: the text of an array with a comma (and white space) before closing  *)
(* braces or brackets is parsed by the try block, to the same records as   *)
(* the text without these commas; the example of two articles A and B      *)
(* gives these two, in order.                                              *)
C7_TrailingCommasRepaired ==
  Called =>
    /\ \A p \in CommaTexts :
         aiResponse = Str(p[1]) =>
           /\ ret[1].tier = 1
           /\ ret[1].val = ExtractAndParseJSON(Str(p[2])).val
           /\ ExtractAndParseJSON(Str(p[2])).tier = 1
    /\ aiResponse = Str(TrailingCommaExample) =>
         ret[1].tier = 1 /\ ret[1].val = <<Article("A"), Article("B")>>

C7_Witness ==
  /\ Called
  /\ aiResponse = Str(TrailingCommaExample)
  /\ ret[1].val = <<Article("A"), Article("B")>>

(* A JSON text in a Markdown fence, with the text alone: <<fenced, J>>.     *)
InFence(texts) == {<<Fenced(J), J>> : J \in texts}

FencedTexts == InFence(PlainTexts)

FencedScalars == InFence(ScalarTexts)

SameWhenFenced(p) ==
  aiResponse = Str(p[1]) => ret[1].val = ExtractAndParseJSON(Str(p[2])).val

(* C8 as stated: for any JSON text J, the result for J in a Markdown fence *)
(* is the result for J alone.                                              *)
C8_FenceTransparent == Called => \A p \in FencedTexts \cup FencedScalars : SameWhenFenced(p)

(* C8, amended: the same for any JSON text J of an array or an object.     *)
C8_FenceTransparentForArrays == Called => \A p \in FencedTexts : SameWhenFenced(p)

C8_Witness ==
  /\ Called
  /\ \E p \in FencedTexts : aiResponse = Str(p[1]) /\ Len(ret[1].val) = 2
  /\ ret[1].tier = 1

(* Two record sequences of the same length with, at each position, the     *)
(* same keys and the same string values.                                   *)
KeysOf(x) == {x.k[i] : i \in 1..Len(x.k)}

SameRecord(x, y) ==
  /\ x.t = y.t
  /\ KeysOf(x) = KeysOf(y)
  /\ \A key \in KeysOf(x) :
       Get(x, key).t = "str" \/ Get(y, key).t = "str" => Get(x, key) = Get(y, key)

Equivalent(a, b) == Len(a) = Len(b) /\ \A i \in 1..Len(a) : SameRecord(a[i], b[i])

(* C9: the parser applied to JSON.stringify of its own result gives a      *)
(* sequence equivalent to that result.                                     *)
C9_Idempotent ==
  Called /\ aiResponse.t = "str"
  => Equivalent(ExtractAndParseJSON(Str(Stringify(Arr(ret[1].val)))).val, ret[1].val)

(* The records beyond the end of the real-news list.                       *)
NewsLength == Len(realNewsState.e)

WellFormed ==
  realNewsState.t = "arr" /\ \A i \in 1..Len(ret[1].val) : ~MakesMapThrow(ret[1].val[i])

(* C10 as stated: with more parsed articles than news items there is no    *)
(* fallback, and every record with no news item has an empty               *)
(* originalTitle, originalSummary and source URL.  It is stated here for   *)
(* a news list and parsed elements the map callback does not throw on.     *)
C10_BeyondNewsAllEmpty ==
  processingComplete /\ Called /\ WellFormed /\ Len(ret[1].val) > NewsLength
  => /\ Len(articles) = Len(ret[1].val)
     /\ \A i \in (NewsLength + 1)..Len(articles) :
          /\ articles[i]["originalTitle"] = Str("")
          /\ articles[i]["originalSummary"] = Str("")
          /\ articles[i]["originalUrl"] = Str("")

(* C10, amended: with more parsed articles than news items, none of which  *)
(* the map callback throws on, there is no fallback and nothing is logged  *)
(* by processAIResponse's catch; every record with no news item has an     *)
(* empty originalTitle and originalSummary, and its source URL is the      *)
(* article's own "Source URL", empty when it has none.                     *)
C10_BeyondNewsNoCounterpart ==
  processingComplete /\ Called /\ WellFormed /\ Len(ret[1].val) > NewsLength
  => /\ Len(articles) = Len(ret[1].val)
     /\ \A n \in 1..Len(log) : log[n] # ProcessFailedMessage
     /\ \A i \in (NewsLength + 1)..Len(articles) :
          /\ articles[i]["originalTitle"] = Str("")
          /\ articles[i]["originalSummary"] = Str("")
          /\ articles[i]["originalUrl"] = Or(Get(ret[1].val[i], "Source URL"), Str(""))
          /\ articles[i]["Source URL"] = articles[i]["originalUrl"]

C10_Witness ==
  /\ processingComplete
  /\ Called
  /\ NewsLength = 1
  /\ Len(articles) = 2
  /\ articles[1]["originalTitle"] = Str("Summit agrees")
  /\ articles[2]["originalTitle"] = Str("")
  /\ articles[2]["originalUrl"] = Str("ftp://files.example/b")

----------------------------------------------------------------------------
(* Properties of the home screen: handleSubmit, fetchRealNews,             *)
(* fetchFallbackNews and groqResponse.                                     *)

(* A response that is a network or an HTTP failure.                        *)
IsFailure(response) == response.kind = "network" \/ ~Ok(response)

(* The submission begun has finished.                                      *)
SubmissionOver == caller = "handleSubmit" /\ pc = "idle" /\ responses # <<>>

(* A request of the news fetch of the submission was answered by a         *)
(* failure.                                                                *)
NewsFetchFailed ==
  \E i \in 1..Len(responses) :
    requests[i] \in {"news", "fallback"} /\ IsFailure(responses[i])

(* The last attempt of the LLM call of the submission was answered by a    *)
(* failure.                                                                *)
GroqCallFailed ==
  /\ responses # <<>>
  /\ requests[Len(responses)] = "groq"
  /\ IsFailure(responses[Len(responses)])

(* C11: a submission in which the news fetch met a network or HTTP         *)
(* failure, or in which the LLM call ended on one, pushes no route and     *)
(* leaves a non-null error; and when the news API answered 404 or 429 the  *)
(* error is the categorized error of that status.                          *)
C11_FailureStopsPipeline ==
  SubmissionOver =>
    /\ (NewsFetchFailed \/ GroqCallFailed) => (pushed = <<>> /\ error # Null)
    /\ (Ok(responses[1]) \/ responses[1].kind = "network"
          \/ responses[1].status \notin {404, 429}
          \/ error = Str(NewsApiError(responses[1].status, "").message))

(* A key that is absent (the configuration then gives '') or made of       *)
(* white space only.                                                       *)
AbsentOrBlank(key) == \A i \in 1..Len(key) : Ch(key, i) \in WhiteSpace

(* The configuration message a submission sets: the one of the Groq key    *)
(* when that key is blank, else the one of the RapidAPI key.               *)
ConfigurationMessage ==
  IF AbsentOrBlank(groqApiKey) THEN GroqKeyMissingMessage ELSE RapidKeyMissingMessage

(* A step that is a press of the submit button.                            *)
Submits == caller' = "handleSubmit" /\ submissions' = submissions + 1

(* A submission with a blank key issues no request, sets the configuration *)
(* message and leaves isLoading false.                                     *)
BlankKeySubmissionRefused ==
  /\ requests' = <<>>
  /\ pc' = "idle"
  /\ ~isLoading'
  /\ error' = Str(ConfigurationMessage)

(* With a blank key isLoading is never true and no submission has a        *)
(* request; groqResponse called with a blank Groq key and fetchRealNews    *)
(* called with a blank RapidAPI key have thrown their configuration error  *)
(* without a request.                                                      *)
BlankKeyNothingSent ==
  /\ (AbsentOrBlank(groqApiKey) \/ AbsentOrBlank(rapidApiKey)) =>
       (~isLoading /\ (caller = "handleSubmit" => requests = <<>> /\ pc = "idle"))
  /\ (caller = "groqResponse" /\ AbsentOrBlank(groqApiKey)) =>
       /\ requests = <<>> /\ pc = "idle"
       /\ result = <<[threw |-> TRUE, error |-> Error(GroqResponseConfigMessage),
                      val |-> Undef]>>
  /\ (caller = "fetchRealNews" /\ AbsentOrBlank(rapidApiKey)) =>
       /\ requests = <<>> /\ pc = "idle"
       /\ result = <<[threw |-> TRUE, error |-> Error(FetchRealNewsConfigMessage),
                      val |-> Undef]>>

(* C12 as stated: whenever a key is absent or blank, every submission      *)
(* issues no request, sets the configuration message and never sets        *)
(* isLoading; groqResponse and fetchRealNews throw their configuration     *)
(* error before any request when their own key is blank.                   *)
C12_BlankKeyAnySubmission ==
  /\ []BlankKeyNothingSent
  /\ [][(Submits /\ (AbsentOrBlank(groqApiKey) \/ AbsentOrBlank(rapidApiKey)))
          => BlankKeySubmissionRefused]_vars

(* C12, amended: the same for every submission made with a person name     *)
(* that is not blank (with a blank name handleSubmit returns after its     *)
(* alert, before it looks at the keys).                                    *)
C12_BlankKeyNamedSubmission ==
  /\ []BlankKeyNothingSent
  /\ [][(Submits /\ Trim(homePersonName) # ""
           /\ (AbsentOrBlank(groqApiKey) \/ AbsentOrBlank(rapidApiKey)))
          => BlankKeySubmissionRefused]_vars

(* A named submission refused for the RapidAPI key, which is white space.  *)
C12_Witness ==
  /\ caller = "handleSubmit" /\ submissions = 1 /\ pc = "idle"
  /\ Trim(homePersonName) # ""
  /\ groqApiKey = "gsk" /\ rapidApiKey = " "
  /\ error = Str(RapidKeyMissingMessage)
  /\ requests = <<>> /\ ~isLoading

(* The requests groqResponse has issued in the call, and the answers to    *)
(* them.                                                                   *)
GroqRequests == {i \in 1..Len(requests) : requests[i] = "groq"}

GroqAnswers == {i \in GroqRequests : i <= Len(responses)}

(* An attempt of groqResponse fails when fetch rejects, when the status is *)
(* not a 2xx one or when the body has no choices[0].message.               *)
AttemptFailed(response) ==
  IsFailure(response) \/ response.body.t = "undefined" \/ ContentOf(response.body).threw

(* The message of the error a failed last attempt ends the call with.      *)
FinalMessage(response) ==
  IF response.kind = "network" THEN NetworkFailedMessage
  ELSE IF response.status = 503 THEN GroqUnavailableMessage(response)
  ELSE IF ~Ok(response) THEN GroqApiErrorMessage(response)
  ELSE IF response.body.t = "undefined" THEN "JSON Parse error"
  ELSE "Cannot read property of undefined"

(* C13: a call of groqResponse issues at most three requests; when the     *)
(* third attempt has failed the call is over with that attempt's error     *)
(* thrown: a direct caller gets the error, and handleSubmit has stored its *)
(* message in error, stopped loading and pushed no route.                  *)
C13_AtMostThreeRequests ==
  /\ Cardinality(GroqRequests) <= 3
  /\ attempt <= 3
  /\ (Cardinality(GroqAnswers) = 3 /\ AttemptFailed(responses[Len(responses)])) =>
       /\ pc = "idle"
       /\ Len(requests) = Len(responses)
       /\ caller = "handleSubmit" =>
            /\ error = Str(FinalMessage(responses[Len(responses)]))
            /\ ~isLoading
            /\ pushed = <<>>
       /\ caller = "groqResponse" =>
            /\ result # <<>>
            /\ result[1].threw
            /\ result[1].error.message = FinalMessage(responses[Len(responses)])

(* A submission whose three attempts were all answered by 503.             *)
C13_Witness ==
  /\ caller = "handleSubmit" /\ pc = "idle"
  /\ Cardinality(GroqAnswers) = 3
  /\ \A i \in GroqAnswers : responses[i].status = 503
  /\ error = Str(GroqUnavailableMessage(HttpResponse(503, "busy", Undef)))

(* C14: in groqResponse an attempt answered by an HTTP error status other  *)
(* than 503, whatever the error body, ends the call: no request follows it *)
(* and the call is over with an error thrown.                              *)
C14_Only503Retried ==
  \A i \in GroqAnswers :
    (responses[i].kind = "http" /\ ~Ok(responses[i]) /\ responses[i].status # 503) =>
      /\ i = Len(requests)
      /\ pc = "idle"
      /\ caller = "handleSubmit" => error = Str(GroqApiErrorMessage(responses[i]))
      /\ caller = "groqResponse" => (result # <<>> /\ result[1].threw)

(* What fetchRealNews returned to the submission is empty or missing.      *)
FetchedNothing ==
  /\ caller = "handleSubmit" /\ fetched # <<>>
  /\ \/ fetched[1].t \in {"undefined", "null"}
     \/ fetched[1].t = "arr" /\ fetched[1].e = <<>>

(* The titles of the built-in sample set.                                  *)
SampleTitles ==
  << Str("Global Climate Summit Reaches Historic Agreement on Carbon Reduction"),
     Str("Breakthrough in Quantum Computing Promises Revolutionary Changes"),
     Str("International Space Station Welcomes New Research Mission") >>

(* The story list a route carries, as the news screen reads it.            *)
PushedStories == JSONParse(pushed[1].realNewsData)

(* C15: when fetchRealNews has returned an empty or missing result to a    *)
(* submission, the news data of the prompt is the three-item sample set    *)
(* and the route pushed carries usingMockData 'true'; the LLM is never     *)
(* requested with an empty story list and no route carries one.            *)
C15_NeverEmptyStoryList ==
  /\ FetchedNothing =>
       /\ Len(promptNews) = 3
       /\ \A i \in 1..3 : Get(promptNews[i], "title") = SampleTitles[i]
       /\ usingMockData
       /\ pushed # <<>> => pushed[1].usingMockData = "true"
  /\ (\E i \in 1..Len(requests) : requests[i] = "groq") => promptNews # <<>>
  /\ pushed # <<>> =>
       /\ Len(promptNews) >= 1
       /\ pushed[1].realNewsData # "[]"
       /\ pushed[1].realNewsData # Stringify(Arr(<<>>))

(* A route pushed after the news API answered with an empty list.          *)
C15_Witness ==
  /\ FetchedNothing
  /\ fetched[1] = Arr(<<>>)
  /\ pushed # <<>>
  /\ pushed[1].usingMockData = "true"
  /\ pushed[1].aiResponse = Str("As I see it")
  /\ PushedStories.ok
  /\ Len(PushedStories.v.e) = 3

----------------------------------------------------------------------------
(* Properties of a display session of the news screen.                     *)

(* C16: once processingComplete is true no step (no run of the effect,     *)
(* whatever params have changed) modifies articles, selectedPerson or the  *)
(* real news data of the screen, and processingComplete stays true.        *)
C16_CreatedOnce ==
  [][processingComplete =>
       /\ articles' = articles
       /\ selectedPerson' = selectedPerson
       /\ realNewsState' = realNewsState
       /\ processingComplete']_vars

(* The articles were made for one person, all three params have changed    *)
(* since, the effect has run again, and the screen still shows the first   *)
(* person's articles.                                                      *)
C16_Witness ==
  /\ processingComplete
  /\ paramChanges >= 1
  /\ ~effectPending
  /\ articles # <<>>
  /\ Truthy(person) /\ Truthy(aiResponse)
  /\ selectedPerson # person.s
  /\ articles[1]["Input person name"] = Str(selectedPerson)
  /\ articles[1]["Generated article"] = Str("One")
  /\ aiResponse = Str("{\"Generated article\":\"Two\"}")

----------------------------------------------------------------------------
(* Properties of the tiers of extractAndParseJSON.                         *)

(* The text the first tier looks at: trimmed, without fences and control   *)
(* characters.                                                             *)
CleanedText == StripControl(StripFences(Trim(aiResponse.s)))

(* The slice is taken between the square brackets: a '[' exists and either *)
(* no '{' exists or the '[' comes before the first '{'.                    *)
SlicedAsArray(clean) ==
  /\ IndexOf(clean, "[") # -1
  /\ IndexOf(clean, "{") = -1 \/ IndexOf(clean, "[") < IndexOf(clean, "{")

(* The positions of the opening and of the closing delimiter, -1 when not  *)
(* found.                                                                  *)
SliceFrom(clean) ==
  IF SlicedAsArray(clean) THEN IndexOf(clean, "[") ELSE IndexOf(clean, "{")

SliceTo(clean) ==
  IF SlicedAsArray(clean) THEN LastIndexOf(clean, "]")
  ELSE IF IndexOf(clean, "{") # -1 THEN LastIndexOf(clean, "}") ELSE -1

NoDelimiter(clean) == SliceFrom(clean) = -1 \/ SliceTo(clean) = -1

ClosingNotAfterOpening(clean) == SliceTo(clean) <= SliceFrom(clean)

(* JSON.parse of the repaired slice.                                       *)
SlicedJson(clean) ==
  JSONParse(Repair(Substring(clean, SliceFrom(clean), SliceTo(clean) + 1)))

(* The first tier throws: the input is no string, no delimiter is found,   *)
(* the closing delimiter is not after the opening one, or JSON.parse       *)
(* fails.                                                                  *)
Tier1Throws ==
  LET Throws(clean) ==
        \/ NoDelimiter(clean)
        \/ ClosingNotAfterOpening(clean)
        \/ ~SlicedJson(clean).ok
  IN aiResponse.t # "str" \/ Throws(CleanedText)

(* The regex of the second tier has a match in the raw input.              *)
RegexFinds == HasArticleMatch(ToJSString(aiResponse))

(* C17: the result comes from the regex tier only if the first tier threw  *)
(* and the regex found a match, from the whole-text tier only if the first *)
(* tier threw and the regex found none, and from the first tier whenever   *)
(* it did not throw, then without the error the catch block logs.          *)
C17_TiersInOrder ==
  LET InOrder(threw, finds) ==
        /\ ~ret[1].threw
        /\ ret[1].tier \in {1, 2, 3}
        /\ ret[1].tier = 1 <=> ~threw
        /\ ret[1].tier = 2 <=> threw /\ finds
        /\ ret[1].tier = 3 <=> threw /\ ~finds
        /\ ret[1].tier = 1 => ret[1].errors = <<>>
        /\ ret[1].tier # 1 => ret[1].errors = <<ParseFailedMessage>>
        /\ ret[1].tier = 2 => Len(ret[1].val) >= 1
        /\ ret[1].tier = 3 => ret[1].val = <<Obj(<<"Generated article">>, <<aiResponse>>)>>
  IN Called => InOrder(Tier1Throws, RegexFinds)

(* A text the regex would match, answered by the first tier.               *)
C17_Witness ==
  /\ Called
  /\ ret[1].tier = 1
  /\ RegexFinds
  /\ ret[1].errors = <<>>

(* A parsed array as it is, any other parsed value as a sequence of one.   *)
AsSequence(v) == IF v.t = "arr" THEN v.e ELSE <<v>>

(* C18: when the text between the first '[' and the last ']' (taken when a *)
(* '[' exists and no '{' comes before it), or else between the first '{'   *)
(* and the last '}', parses after repair, the result is the parsed array   *)
(* as it is, or the parsed value of another kind as a sequence of one.     *)
C18_SliceAndWrap ==
  LET Wrapped(parsed) ==
        parsed.ok => (ret[1].tier = 1 /\ ret[1].val = AsSequence(parsed.v))
      Sliced(clean) ==
        (~NoDelimiter(clean) /\ ~ClosingNotAfterOpening(clean)) => Wrapped(SlicedJson(clean))
  IN (Called /\ aiResponse.t = "str") => Sliced(CleanedText)

(* Prose with an object before an unrelated array: the object is parsed    *)
(* and returned as a sequence of one.                                      *)
C18_Witness ==
  /\ Called
  /\ aiResponse = Str("{\"Generated article\":\"braces first\"} and then [1, 2]")
  /\ ~SlicedAsArray(CleanedText)
  /\ ret[1].tier = 1
  /\ ret[1].val = <<Article("braces first")>>

(* C19: for the array whose one string value is Hello and world separated  *)
(* by a raw newline, the first tier recovers the two words separated by    *)
(* one space.                                                              *)
C19_NewlineBecomesSpace ==
  (Called /\ aiResponse = Str(RawNewlineExample)) =>
    /\ ret[1].tier = 1
    /\ ret[1].val = <<Article("Hello world")>>

(* C20: for the two articles of EscapedQuoteExample, which the first tier  *)
(* cannot parse, the regex tier returns two objects in order, each with    *)
(* the full content of its article, \n turned into a newline and \" into a *)
(* double quote.                                                           *)
C20_RegexKeepsFullContent ==
  (Called /\ aiResponse = Str(EscapedQuoteExample)) =>
    /\ ret[1].tier = 2
    /\ ret[1].val = <<Article("First\nline"), Article("Second \"one\"")>>

----------------------------------------------------------------------------
(* Properties of the records processAIResponse makes.                      *)

(* The parsed element and the real-news item of the record at position i   *)
(* (1-based here, i - 1 in the program): an empty object when the news     *)
(* list has no item there.                                                 *)
ParsedAt(i) == ret[1].val[i]

ItemAt(i) ==
  IF realNewsState.t = "arr" /\ i <= Len(realNewsState.e) /\ Truthy(realNewsState.e[i])
  THEN realNewsState.e[i]
  ELSE Obj(<<>>, <<>>)

(* The record at position i has the id of its position and the real-news   *)
(* fields of the item at the same position.                                *)
AlignedAt(i) ==
  /\ {"originalTitle", "originalSummary"} \subseteq DOMAIN articles[i]
  /\ articles[i]["id"] = Str(NumberToString(i))
  /\ articles[i]["originalTitle"] = Or(Get(ItemAt(i), "title"), Str(""))
  /\ articles[i]["originalSummary"] = Or(Get(ItemAt(i), "summary"), Str(""))
  /\ articles[i]["source"] = Or(Get(ItemAt(i), "source"), Str("News Source"))
  /\ (~Truthy(Get(ParsedAt(i), "Original title")) /\ Truthy(Get(ItemAt(i), "title")))
       => articles[i]["title"] = Get(ItemAt(i), "title")
  /\ ~Truthy(Get(ParsedAt(i), "Source URL"))
       => articles[i]["originalUrl"] = Or(Get(ItemAt(i), "url"), Str(""))
  /\ ~Truthy(Get(ParsedAt(i), "Timestamp"))
       => articles[i]["publishedAt"] = Or(Get(ItemAt(i), "published"), Str("Today"))

(* One record per parsed element, in order, with the ids "1".."n".         *)
OneRecordPerElement ==
  /\ Len(articles) = Len(ret[1].val)
  /\ \A i \in 1..Len(articles) : AlignedAt(i)
  /\ \A i, j \in 1..Len(articles) : i # j => articles[i]["id"] # articles[j]["id"]

(* C21 as stated: for every parsed sequence, normalization returns one     *)
(* record per element, in order, the record at position i with the id of   *)
(* its position and the real-news fields of the item at that position.     *)
C21_RecordPerElement == (processingComplete /\ Called) => OneRecordPerElement

(* C21, amended: the same for every parsed sequence and news list the map  *)
(* callback does not throw on; when it throws, the result is the single    *)
(* fallback record.                                                        *)
C21_RecordPerMappedElement ==
  (processingComplete /\ Called) =>
    IF WellFormed THEN OneRecordPerElement
    ELSE Len(ret[1].val) = 0 \/ articles = <<FallbackArticle(selectedPerson)>>

(* Two articles for two news items, each with the title of its own item.   *)
C21_Witness ==
  /\ processingComplete /\ Called /\ WellFormed
  /\ Len(articles) = 2 /\ NewsLength = 2
  /\ articles[1]["id"] = Str("1") /\ articles[2]["id"] = Str("2")
  /\ articles[1]["originalTitle"] = Str("Summit agrees")
  /\ articles[2]["originalTitle"] = Str("News Story 2")
  /\ articles[2]["title"] = Str("News Story 2")

FirstSentence(s) ==
  LET periods == {k \in 1..Len(s) : Ch(s, k) = "."}
  IN IF periods = {} THEN s
     ELSE SubSeq(s, 1, (CHOOSE k \in periods : \A m \in periods : k <= m) - 1)

(* The title derived from a body: its first sentence and a period, or its  *)
(* first 60 characters and an ellipsis when the sentence is longer than    *)
(* 80.                                                                     *)
TitleFromBody(body) ==
  IF Len(FirstSentence(body)) > 80 THEN SubSeq(body, 1, 60) \o "..."
  ELSE FirstSentence(body) \o "."

(* The record at position i has no stated title and no news title, and a   *)
(* body to derive one from.                                                *)
TitleIsDerived(i) ==
  /\ ~Truthy(Get(ParsedAt(i), "Original title"))
  /\ ~Truthy(Get(ItemAt(i), "title"))
  /\ Truthy(Get(ParsedAt(i), "Generated article"))

(* C23: the title of a record is the "Original title" of the parsed        *)
(* element if non-empty, else the title of the news item if non-empty,     *)
(* else the title derived from the body, which has at most 81 characters   *)
(* (with no body either, it is the title made of the person's name).       *)
C23_TitlePrecedence ==
  (processingComplete /\ Called /\ WellFormed) =>
    /\ Len(articles) = Len(ret[1].val)
    /\ \A i \in 1..Len(articles) :
         IF Truthy(Get(ParsedAt(i), "Original title"))
         THEN articles[i]["title"] = Get(ParsedAt(i), "Original title")
         ELSE IF Truthy(Get(ItemAt(i), "title"))
         THEN articles[i]["title"] = Get(ItemAt(i), "title")
         ELSE IF TitleIsDerived(i)
         THEN /\ articles[i]["title"]
                   = Str(TitleFromBody(Get(ParsedAt(i), "Generated article").s))
              /\ Len(articles[i]["title"].s) <= 81
         ELSE articles[i]["title"] = Str(selectedPerson \o "'s Perspective on Current Events")

(* A first sentence of 81 characters: the title is the first 60 characters *)
(* of the body and an ellipsis.                                            *)
C23_Witness ==
  /\ processingComplete /\ Called /\ WellFormed
  /\ Len(articles) = 1
  /\ TitleIsDerived(1)
  /\ Len(FirstSentence(Get(ParsedAt(1), "Generated article").s)) = 81
  /\ Len(articles[1]["title"].s) = 63
  /\ SubSeq(articles[1]["title"].s, 61, 63) = "..."

(* The least member of a non-empty set of positions.                       *)
Earliest(positions) == CHOOSE k \in positions : \A m \in positions : k <= m

(* The first paragraph of s as the specification describes it: the text    *)
(* before the first blank line, or with no blank line before the first     *)
(* newline, or all of s.                                                   *)
FirstParagraph(s) ==
  LET blankLines == {k \in 1..Len(s) : StartsWithAt(s, k, "\n\n")}
      newlines == {k \in 1..Len(s) : Ch(s, k) = "\n"}
  IN IF blankLines # {} THEN SubSeq(s, 1, Earliest(blankLines) - 1)
     ELSE IF newlines # {} THEN SubSeq(s, 1, Earliest(newlines) - 1)
     ELSE s

(* A text cut to its first 200 characters and an ellipsis when longer.     *)
CutAt200(s) == IF Len(s) > 200 THEN SubSeq(s, 1, 200) \o "..." ELSE s

(* The body of the parsed element at position i, "" when it has none.      *)
BodyAt(i) ==
  IF Truthy(Get(ParsedAt(i), "Generated article"))
  THEN Get(ParsedAt(i), "Generated article").s ELSE ""

(* The summary of a record never exceeds 203 characters, and an empty      *)
(* body gives the bare ellipsis.                                           *)
SummaryIsShort ==
  (processingComplete /\ Called /\ WellFormed) =>
    \A i \in 1..Len(articles) :
      /\ Len(articles[i]["summary"].s) <= 203
      /\ BodyAt(i) = "" => articles[i]["summary"] = Str("...")

(* C24: the summary of a record is the first paragraph of its body, ended  *)
(* by the first blank line or else by the first newline, cut to 200        *)
(* characters and an ellipsis when longer; at most 203 characters; the     *)
(* slice of the body and an ellipsis when the body is empty.               *)
C24_SummaryIsFirstParagraph ==
  (processingComplete /\ Called /\ WellFormed) =>
    /\ SummaryIsShort
    /\ \A i \in 1..Len(articles) :
         FirstParagraph(BodyAt(i)) # ""
           => articles[i]["summary"] = Str(CutAt200(FirstParagraph(BodyAt(i))))

(* A body of two lines with no blank line: the summary holds both lines.   *)
C24_NewlineDoesNotEndParagraph ==
  /\ processingComplete /\ Called /\ WellFormed
  /\ Len(articles) = 1
  /\ BodyAt(1) = "First line\nsecond line"
  /\ articles[1]["summary"] = Str("First line\nsecond line")

----------------------------------------------------------------------------
(* The order of the requests of a submission.                              *)

(* A submission has reached the network.                                   *)
OnTheNetwork == caller = "handleSubmit" /\ requests # <<>>

(* The positions of the requests of the news fetch, to either endpoint.    *)
NewsFetchRequests == {i \in 1..Len(requests) : requests[i] \in {"news", "fallback"}}

(* The answer gives the news fetch nothing to read: a failure, or a body   *)
(* that is not JSON or is null.                                            *)
NewsUnreadable(response) ==
  IsFailure(response) \/ response.body.t \in {"undefined", "null"}

(* Every request of the news fetch was answered before the first request   *)
(* to the LLM was issued.                                                  *)
NewsAnsweredBeforeModel ==
  \A n \in NewsFetchRequests, g \in GroqRequests : n < g /\ n <= Len(responses)

(* A route is pushed only by a submission whose last request, one to the   *)
(* LLM, was answered by a completion.                                      *)
PushFollowsCompletion ==
  pushed # <<>> =>
    /\ caller = "handleSubmit" /\ pc = "idle"
    /\ Len(responses) = Len(requests)
    /\ requests[Len(requests)] = "groq"
    /\ ~AttemptFailed(responses[Len(responses)])

----------------------------------------------------------------------------
(* The waits of groqResponse.                                              *)

RECURSIVE TotalOf(_)
TotalOf(delays) == IF delays = <<>> THEN 0 ELSE Head(delays) + TotalOf(Tail(delays))

(* C26: the running call of groqResponse has waited once between each      *)
(* attempt and the next, 2000 ms after attempt 1 and 4000 ms after attempt *)
(* 2 (RETRY_DELAY times the attempt), never after the last attempt, so at  *)
(* most 6000 ms in all.                                                    *)
C26_BackoffIsDelayTimesAttempt ==
  /\ Len(waits) = (IF GroqRequests = {} THEN 0 ELSE Cardinality(GroqRequests) - 1)
  /\ \A k \in 1..Len(waits) : waits[k] = RETRY_DELAY * k /\ k \in {1, 2}
  /\ Len(waits) >= 1 => waits[1] = 2000
  /\ Len(waits) >= 2 => waits[2] = 4000
  /\ pc = "idle" => Len(waits) = (IF GroqAnswers = {} THEN 0 ELSE Cardinality(GroqAnswers) - 1)
  /\ TotalOf(waits) <= 6000

(* A call whose three attempts failed: it waited 2000 ms, then 4000 ms,    *)
(* and ended after the third answer with no further wait.                  *)
C26_Witness ==
  /\ pc = "idle"
  /\ Cardinality(GroqAnswers) = 3
  /\ AttemptFailed(responses[Len(responses)])
  /\ waits = <<2000, 4000>>
  /\ TotalOf(waits) = 6000

----------------------------------------------------------------------------
(* The end of groqResponse and the loading flag.                           *)

(* The answers to the requests of groqResponse but the last all failed,    *)
(* and the last one is a completion.                                       *)
FirstSuccessIsLast ==
  /\ GroqAnswers # {}
  /\ Len(responses) = Len(requests)
  /\ requests[Len(requests)] = "groq"
  /\ ~AttemptFailed(responses[Len(responses)])
  /\ \A i \in GroqAnswers : i < Len(responses) => AttemptFailed(responses[i])

(* A call of groqResponse that is over has returned the content of its     *)
(* first successful attempt or has thrown: a direct caller holds the       *)
(* content or the error, handleSubmit has pushed the content or stored the *)
(* message of the error.                                                   *)
GroqEndsByReturnOrThrow ==
  (pc = "idle" /\ GroqRequests # {}) =>
    /\ caller = "groqResponse" =>
         /\ Len(result) = 1
         /\ \/ result[1].threw
            \/ /\ FirstSuccessIsLast
               /\ result[1].val = ContentOf(responses[Len(responses)].body).val
               /\ result[1].val # Undef
    /\ caller = "handleSubmit" =>
         \/ pushed = <<>> /\ error # Null /\ AttemptFailed(responses[Len(responses)])
         \/ /\ FirstSuccessIsLast
            /\ Len(pushed) = 1
            /\ pushed[1].aiResponse = ContentOf(responses[Len(responses)].body).val

(* No request follows a successful attempt.                                *)
NoRequestAfterSuccess ==
  \A i \in GroqAnswers : ~AttemptFailed(responses[i]) => i = Len(requests)

(* C27: every call of groqResponse whose requests are answered ends, by    *)
(* returning the content of its first successful attempt or by throwing,   *)
(* never by leaving the loop with nothing returned, and sends no request   *)
(* after a successful one.                                                 *)
C27_GroqReturnsOrThrows ==
  /\ [](GroqEndsByReturnOrThrow /\ NoRequestAfterSuccess)
  /\ (pc = "awaitGroq") ~> (pc = "idle")

(* A direct call that failed twice and returned the content of its third   *)
(* attempt.                                                                *)
C27_Witness ==
  /\ caller = "groqResponse" /\ pc = "idle"
  /\ Cardinality(GroqAnswers) = 3
  /\ FirstSuccessIsLast
  /\ ~result[1].threw
  /\ result[1].val = Str("As I see it")

(* A submission that returns before its pipeline: the name or a key is     *)
(* blank.                                                                  *)
EarlyReturn ==
  /\ Submits
  /\ \/ \A i \in 1..Len(homePersonName) : Ch(homePersonName, i) \in WhiteSpace
     \/ AbsentOrBlank(groqApiKey)
     \/ AbsentOrBlank(rapidApiKey)

(* C28: isLoading is true only while the pipeline of a submission runs;    *)
(* once true it becomes false again when the requests are answered; it is  *)
(* false when the route is pushed; and a submission that returns early     *)
(* leaves it false.                                                        *)
C28_LoadingEnds ==
  /\ [](isLoading => (caller = "handleSubmit" /\ pc # "idle"))
  /\ [](pushed # <<>> => ~isLoading)
  /\ [][EarlyReturn => (~isLoading' /\ pc' = "idle")]_vars
  /\ isLoading ~> ~isLoading

(* A submission that ran its pipeline, met an error and stopped loading.   *)
C28_Witness ==
  /\ caller = "handleSubmit" /\ pc = "idle"
  /\ GroqAnswers # {}
  /\ error # Null
  /\ ~isLoading

----------------------------------------------------------------------------
(* One submission at a time.                                               *)

(* A step that stores an error, sets usingMockData or pushes a route.      *)
UpdatesScreen ==
  \/ error' # error
  \/ usingMockData' # usingMockData
  \/ pushed' # pushed /\ pushed' # <<>>

(* C29: the submit button, disabled while isLoading, starts a submission   *)
(* only when no pipeline is running; isLoading is true as long as the      *)
(* pipeline of a submission runs; and every update of error, usingMockData *)
(* and the route is made by the step that starts a submission or by the    *)
(* one submission running.                                                 *)
C29_OnePipelineAtATime ==
  /\ [][Submits => (pc = "idle" /\ ~isLoading)]_vars
  /\ []((caller = "handleSubmit" /\ pc # "idle") => isLoading)
  /\ [][UpdatesScreen =>
          \/ Submits
          \/ /\ caller = "handleSubmit" /\ pc # "idle" /\ isLoading
             /\ caller' = caller /\ submissions' = submissions]_vars

(* The pipeline of a second submission runs after the first one ended.     *)
C29_Witness ==
  /\ submissions = 2
  /\ caller = "handleSubmit"
  /\ pc = "awaitGroq"
  /\ isLoading
  /\ error = Null

----------------------------------------------------------------------------
(* The source links.  linkLog holds one entry for each press of a source   *)
(* link: the screen, the position of the record on the news list (0 on the *)
(* article screen), the URL given, whether Linking.canOpenURL and          *)
(* Linking.openURL were called with it, and the title of the alert shown,  *)
(* "" when none.  articleParams holds the params of the article route,     *)
(* <<>> before a record is pressed.                                        *)

MaxPresses == 2

(* A handler that asks the device about every URL it is given.             *)
OpenAnyLink(url) ==
  { [checked |-> TRUE, opened |-> FALSE, alert |-> "Error"],
    [checked |-> TRUE, opened |-> FALSE, alert |-> "Cannot open URL"],
    [checked |-> TRUE, opened |-> TRUE, alert |-> ""],
    [checked |-> TRUE, opened |-> TRUE, alert |-> "Error"] }

(* The body of handleVerifySource(url) and of handleOpenSource, which is   *)
(* the same code on sourceUrl: the outcomes it can have.  canOpenURL       *)
(* rejects, resolves to false or resolves to true, and then openURL        *)
(* resolves or rejects; url.startsWith throws when url is no string.       *)
OpenLink(url) ==
  IF ~Truthy(url)
  THEN {[checked |-> FALSE, opened |-> FALSE, alert |-> "Invalid URL"]}
  ELSE IF url.t # "str"
  THEN {[checked |-> FALSE, opened |-> FALSE, alert |-> ""]}
  ELSE IF ~StartsWith(url.s, "http")
  THEN {[checked |-> FALSE, opened |-> FALSE, alert |-> "Invalid URL"]}
  ELSE { [checked |-> TRUE, opened |-> FALSE, alert |-> "Error"],
         [checked |-> TRUE, opened |-> FALSE, alert |-> "Cannot open URL"],
         [checked |-> TRUE, opened |-> TRUE, alert |-> ""],
         [checked |-> TRUE, opened |-> TRUE, alert |-> "Error"] }

(* The news list is rendered: not the empty state of NewsScreen.           *)
ListShown ==
  /\ Len(articles) > 0
  /\ ~Truthy(aiResponse) \/ selectedPerson # ""

(* The press of the Verify button of the record at position i, rendered    *)
(* when article.originalUrl is truthy.                                     *)
HandleVerifySource ==
  /\ ListShown /\ Len(linkLog) < MaxPresses
  /\ \E i \in 1..Len(articles) :
       /\ Truthy(articles[i]["originalUrl"])
       /\ \E outcome \in OpenLink(articles[i]["originalUrl"]) :
            linkLog' = Append(linkLog,
                              [screen |-> "news", item |-> i,
                               url |-> articles[i]["originalUrl"],
                               checked |-> outcome.checked, opened |-> outcome.opened,
                               alert |-> outcome.alert])
  /\ UNCHANGED <<articleParams, newsVars, homeVars>>

(* The press of the record at position i: the article route is pushed.     *)
HandleArticlePress ==
  /\ ListShown
  /\ \E i \in 1..Len(articles) :
       LET article == articles[i]
           sourceUrl == IF "Source URL" \in DOMAIN article THEN article["Source URL"]
                        ELSE Undef
       IN /\ articleParams' = <<[articleId |-> article["id"],
                                 originalUrl |-> Or(article["originalUrl"], sourceUrl),
                                 isVerified |-> article["isVerified"]]>>
          /\ articleParams' # articleParams
  /\ UNCHANGED <<linkLog, newsVars, homeVars>>

(* The press of a source link of the article screen, rendered when         *)
(* sourceUrl is truthy.                                                    *)
HandleOpenSource ==
  /\ articleParams # <<>> /\ Len(linkLog) < MaxPresses
  /\ Truthy(articleParams[1].originalUrl)
  /\ \E outcome \in OpenLink(articleParams[1].originalUrl) :
       linkLog' = Append(linkLog,
                         [screen |-> "article", item |-> 0,
                          url |-> articleParams[1].originalUrl,
                          checked |-> outcome.checked, opened |-> outcome.opened,
                          alert |-> outcome.alert])
  /\ UNCHANGED <<articleParams, newsVars, homeVars>>

LinkNext ==
  \/ ProcessingEffect
  \/ HandleVerifySource
  \/ HandleArticlePress
  \/ HandleOpenSource

(* The news screen opened with two articles of the model and with the news *)
(* list or without it.                                                     *)
LinkInit ==
  /\ \E first \in ArticleShapes, second \in ArticleShapes :
       aiResponse = Str(Stringify(Arr(<<first, second>>)))
  /\ person = Str(PersonName)
  /\ realNewsData \in {Str(Stringify(Arr(<<NewsItem1, NewsItem2>>))), Undef}
  /\ ret = <<>>
  /\ articles = <<>>
  /\ selectedPerson = ""
  /\ realNewsState = Arr(<<>>)
  /\ processingComplete = FALSE
  /\ effectPending = TRUE
  /\ log = <<>>
  /\ paramChanges = 0
  /\ HomeScreenAtRest("Ada", "gsk", "rapid")

LinkSpec == LinkInit /\ [][LinkNext]_vars

(* A URL that is a non-empty text beginning with "http".                   *)
BeginsHttp(url) ==
  /\ url.t = "str"
  /\ Len(url.s) >= 4
  /\ SubSeq(url.s, 1, 4) = "http"

(* C30: a press of a source link calls Linking.canOpenURL or               *)
(* Linking.openURL only with a non-empty URL that begins with "http", and  *)
(* otherwise shows the 'Invalid URL' alert and calls neither; isVerified   *)
(* of a record says the same of its originalUrl, so on the news list a URL *)
(* is opened only for a record whose isVerified is true.                   *)
C30_OnlyHttpIsOpened ==
  /\ \A n \in 1..Len(linkLog) :
       /\ (linkLog[n].checked \/ linkLog[n].opened) => BeginsHttp(linkLog[n].url)
       /\ ~BeginsHttp(linkLog[n].url) =>
            /\ linkLog[n].alert = "Invalid URL"
            /\ ~linkLog[n].checked /\ ~linkLog[n].opened
       /\ BeginsHttp(linkLog[n].url) => (linkLog[n].checked /\ linkLog[n].alert # "Invalid URL")
       /\ (linkLog[n].screen = "news" /\ (linkLog[n].checked \/ linkLog[n].opened)) =>
            /\ articles[linkLog[n].item]["originalUrl"] = linkLog[n].url
            /\ articles[linkLog[n].item]["isVerified"] = Bool(TRUE)
  /\ \A i \in 1..Len(articles) :
       articles[i]["isVerified"] = Bool(BeginsHttp(articles[i]["originalUrl"]))

(* On the news list the link of a verified record was opened and the link  *)
(* of a record with an ftp URL was refused.                                *)
C30_Witness ==
  /\ Len(linkLog) = 2
  /\ linkLog[1].screen = "news" /\ linkLog[1].opened /\ linkLog[1].alert = ""
  /\ linkLog[1].url = Str("http://model.example/1")
  /\ articles[linkLog[1].item]["isVerified"] = Bool(TRUE)
  /\ linkLog[2].screen = "news" /\ linkLog[2].alert = "Invalid URL"
  /\ linkLog[2].url = Str("ftp://files.example/b")
  /\ articles[linkLog[2].item]["isVerified"] = Bool(FALSE)
====
